---- MODULE Spec2Model ----
(***************************************************************************)
(* Download orchestration of cc-download (electron/main.ts): the pending   *)
(* queue, the drain loop (processQueue), the live registry                 *)
(* (activeDownloads), the listeners of each yt-dlp process, the settings   *)
(* handlers and the forced shutdown.                                       *)
(*                                                                         *)
(* Execution model.  The main process is one JavaScript thread.  A step of *)
(* this model is one handler run from the point where the event loop       *)
(* starts it up to its next await on something outside the thread (file    *)
(* I/O, the child's 'spawn' event, the quit dialog).  An await on a value  *)
(* that is already there (loadSettings with a filled settingsCache) only   *)
(* passes through the microtask queue, which runs before any other handler *)
(* is started, so it does not end a step.                                  *)
(*                                                                         *)
(* Every PendingTask gets a number n (1, 2, ...) in the order of           *)
(* pendingQueue.push.  The DownloadTask and the yt-dlp process made from   *)
(* it carry the same number; the task id is separate, because a retry      *)
(* reuses the id of an earlier task (overrideId).                          *)
(*                                                                         *)
(* Two specifications.  Spec is the queue: requests, admissions, exits,    *)
(* settings and shutdown, with processes that write nothing.  TaskSpec is  *)
(* one download with what its process writes, its 'error' event and its    *)
(* metadata fetch; these touch the status and the events of their own task *)
(* only, never the queue or the registry.  FairSpec is Spec with the       *)
(* outside world doing its part.                                           *)
(***************************************************************************)
EXTENDS Integers, Sequences, FiniteSets, TLC

\* ------------------------------------------------------------------ bounds
\* download:start calls that pass validation: in a run with a fixed limit,
\* in a run whose limit changes, in a run with rejected calls
MaxStarts == 3
MaxChangedStarts == 2
MaxCheckedStarts == 2
\* set-max-concurrent-downloads calls, rejected download:start calls,
\* changes of the download directory, output lines read
MaxLimitChanges == 1
MaxRejects == 1
MaxDirChanges == 1
MaxLines == 2
\* the largest count, and the smallest negated, handed to the settings
MaxCount == 12
\* the largest numbered name "base(k).ext" the directory may hold
MaxSuffix == 2
\* the longest title made of illegal characters only
MaxRuns == 2
\* download:start calls whose resolved paths are followed
MaxPairStarts == 2
MaxIllegalLen == 2

\* ------------------------------------------------------- program constants
DefaultMaxConcurrent == 3
MinConcurrent == 1
MaxConcurrent == 10

NaN == -1000
\* sanitizeFilename keeps the first 120 characters
SliceLen == 120

\* ------------------------------------------------------------ pure helpers

\* A string is a sequence of characters, a character a string of length 1.
\* The class [\\/:*?"<>|] of sanitizeFilename, and white space (\s, trim).
Illegal == {"\\", "/", ":", "*", "?", "\"", "<", ">", "|"}
Space == {" ", "\t"}

\* the places of s that hold no white space
Inked(s) == {i \in 1..Len(s) : s[i] \notin Space}

\* s from its first character that is no white space
TrimStart(s) ==
  IF Inked(s) = {} THEN <<>>
  ELSE SubSeq(s, CHOOSE i \in Inked(s) : \A j \in Inked(s) : i <= j, Len(s))

\* s up to its last character that is no white space
TrimEnd(s) ==
  IF Inked(s) = {} THEN <<>>
  ELSE SubSeq(s, 1, CHOOSE i \in Inked(s) : \A j \in Inked(s) : i >= j)

\* a trim that leaves the string as it is
TrimNothing(s) == s

\* String.prototype.trim
Trim(s) == TrimEnd(TrimStart(s))

\* a rounding that drops the fraction
MathFloor(t) == t \div 10

\* Math.round on tenths: the nearest integer, halves towards +infinity
MathRound(t) == (t + 5) \div 10

\* ------------------------------------------------------------- file names

\* a replace that leaves the characters in
KeepIllegal(s) == s

\* .replace(/[\\/:*?"<>|]/g, '_')
ReplaceIllegal(s) == [i \in 1..Len(s) |-> IF s[i] \in Illegal THEN "_" ELSE s[i]]

\* .replace(/\s+/g, ' '): every run of white space becomes one blank, that
\* is, a white character is kept, as a blank, unless one stands before it
CollapseSpace(s) ==
  LET marked == [i \in 1..Len(s) |->
                   [c |-> IF s[i] \in Space THEN " " ELSE s[i],
                    keep |-> ~(s[i] \in Space /\ i > 1 /\ s[i - 1] \in Space)]]
      kept == SelectSeq(marked, LAMBDA m : m.keep)
  IN  [i \in 1..Len(kept) |-> kept[i].c]

\* .slice(0, n)
Slice(s, n) == SubSeq(s, 1, IF Len(s) < n THEN Len(s) ELSE n)

Video == <<"v", "i", "d", "e", "o">>

\* sanitizeFilename(input)
sanitizeFilename(input) ==
  LET r == Slice(Trim(CollapseSpace(ReplaceIllegal(input))), SliceLen)
  IN  IF r = <<>> THEN Video ELSE r

\* String(attempt): the decimal digits
RECURSIVE Decimal(_)
Decimal(k) ==
  LET digit == <<"0", "1", "2", "3", "4", "5", "6", "7", "8", "9">>[(k % 10) + 1]
  IN  IF k < 10 THEN <<digit>> ELSE Decimal(k \div 10) \o <<digit>>

Mp4 == <<".", "m", "p", "4">>

\* `${baseName}(${attempt})`, the bare base name for attempt 0
CandidateBase(baseName, attempt) ==
  IF attempt = 0 THEN baseName ELSE baseName \o <<"(">> \o Decimal(attempt) \o <<")">>

\* the file name of path.join(directory, `${candidateBase}${ext}`)
CandidateName(baseName, attempt, ext) == CandidateBase(baseName, attempt) \o ext

Mp3 == <<".", "m", "p", "3">>

\* path.extname: from the last dot on, nothing when there is none or it leads
ExtName(p) ==
  LET dots == {i \in 1..Len(p) : p[i] = "."}
      last == IF dots = {} THEN 0 ELSE CHOOSE i \in dots : \A k \in dots : k <= i
  IN  IF last <= 1 THEN <<>> ELSE SubSeq(p, last, Len(p))

EndsWith(p, suffix) ==
  /\ Len(p) >= Len(suffix)
  /\ SubSeq(p, Len(p) - Len(suffix) + 1, Len(p)) = suffix

\* where the last separator of a path stands, 0 without one
LastSep(p) ==
  LET seps == {i \in 1..Len(p) : p[i] = "/"}
  IN  IF seps = {} THEN 0 ELSE CHOOSE i \in seps : \A k \in seps : k <= i

\* path.dirname
DirName(p) == SubSeq(p, 1, LastSep(p) - 1)

\* path.basename(p, ext)
BaseName(p, ext) ==
  LET name == SubSeq(p, LastSep(p) + 1, Len(p))
  IN  IF ext # <<>> /\ Len(name) > Len(ext) /\ EndsWith(name, ext)
        THEN SubSeq(name, 1, Len(name) - Len(ext))
        ELSE name

\* path.join(directory, name) for a directory one level deep: a leading ../
\* of the name leaves it
Join(directory, name) ==
  IF Len(name) >= 3 /\ SubSeq(name, 1, 3) = <<".", ".", "/">>
    THEN SubSeq(name, 4, Len(name))
    ELSE directory \o <<"/">> \o name

\* finalizeDownload: expectedExt
ExpectedExt(audio) == IF audio THEN Mp3 ELSE Mp4

M4a == <<".", "m", "4", "a">>

\* download:start's expectedExt: the container asked for
SelectedExt(audio, audioFormat) ==
  IF audio /\ audioFormat = "m4a" THEN M4a ELSE IF audio THEN Mp3 ELSE Mp4

Min2(a, b) == IF a < b THEN a ELSE b
Max2(a, b) == IF a > b THEN a ELSE b

\* clampConcurrentDownloads on a number given in tenths (NaN: not finite)
clampConcurrentDownloads(input) ==
  IF input = NaN
    THEN DefaultMaxConcurrent
    ELSE Min2(Max2(MathRound(input), MinConcurrent), MaxConcurrent)

\* getMaxConcurrentDownloads: the cached setting, clamped again
getMaxConcurrentDownloads(setting) == clampConcurrentDownloads(setting * 10)

Reqs == 1..MaxStarts
NoReq == 0
NoId == 0
NoDir == "null"
Dir == "dir"
OtherDir == "other"
\* a download directory as a path
DirPath(dir) == IF dir = Dir THEN <<"d">> ELSE <<"e">>

\* the loop of ensureUniqueOutputPath from one attempt on: the first
\* candidate that stat does not find
RECURSIVE UniqueFrom(_, _, _, _)
UniqueFrom(directory, baseName, attempt, dirFiles) ==
  LET absolutePath == Join(directory, CandidateName(baseName, attempt, Mp4))
  IN  IF absolutePath \in dirFiles
        THEN UniqueFrom(directory, baseName, attempt + 1, dirFiles)
        ELSE absolutePath

\* ensureUniqueOutputPath(directory, rawTitle, overwrite, '.mp4').absolutePath
\* over the files dirFiles, when no stat throws but for a missing file
ensureUniqueOutputPath(directory, rawTitle, overwrite, dirFiles) ==
  IF overwrite
    THEN Join(directory, CandidateName(sanitizeFilename(rawTitle), 0, Mp4))
    ELSE UniqueFrom(directory, sanitizeFilename(rawTitle), 0, dirFiles)
NullCode == -1
NoPct == -1

\* payload.url values: sequences of characters, " " is white space
Urls == {<<>>, <<" ">>, <<"u">>, <<" ", "u">>}
\* the count argument of settings:set-max-concurrent-downloads, in tenths
\* (15 is 1.5), NaN for everything Number() does not make finite
LimitInputs == {NaN, 4, 15}
\* exit codes of the child: 0, non-zero, null (ended by a signal)
ExitCodes == {0, 1, NullCode}
Percents == {10, 50}
\* an output line after trim(): how it starts and whether it holds "[download] <n>%"
Lines ==
  [prefix : {"dest", "merger", "error", "other"}, pct : {NoPct} \cup Percents]
    \cup {[prefix |-> "blank", pct |-> NoPct]}
\* child.stdout / child.stderr: yt-dlp-exec spawns with piped stdio
StdioPiped == {TRUE}

\* the limits settings.json can hold at start-up
LoadedLimits == {DefaultMaxConcurrent} \cup {clampConcurrentDownloads(x) : x \in LimitInputs}

\* the limits below the default, at which a few requests fill the capacity
LowLimits == {clampConcurrentDownloads(x) : x \in {4, 15}}

\* What a run of the queue starts from and may spend.  Three kinds of run:
\* many requests at a fixed limit; requests with a limit that changes;
\* requests of which some are rejected, with a directory that changes.
\* The processes of these runs are silent (no line is read).
\* no modification time followed: every file is as old as every other
NoTimes == [f \in {} |-> 0]

QueueBudgets ==
  { [starts |-> MaxStarts, lines |-> 0, limitChanges |-> 0, rejects |-> 0,
     dirChanges |-> 0, limits |-> LowLimits, dirs |-> {Dir}, mtimes |-> {NoTimes}],
    [starts |-> MaxChangedStarts, lines |-> 0, limitChanges |-> MaxLimitChanges,
     rejects |-> 0, dirChanges |-> 0, limits |-> LoadedLimits, dirs |-> {Dir}, mtimes |-> {NoTimes}],
    [starts |-> MaxCheckedStarts, lines |-> 0, limitChanges |-> 0,
     rejects |-> MaxRejects, dirChanges |-> MaxDirChanges,
     limits |-> {MinConcurrent}, dirs |-> {NoDir, Dir}, mtimes |-> {NoTimes}] }

\* What a run of one download starts from and may spend: a single request,
\* whose process writes lines, raises 'error' and has its metadata fetched.
TaskBudgets ==
  { [starts |-> 1, lines |-> MaxLines, limitChanges |-> 0, rejects |-> 0,
     dirChanges |-> 0, limits |-> {DefaultMaxConcurrent}, dirs |-> {Dir}, mtimes |-> {NoTimes}] }

\* the count argument over a wide range, in tenths, and not finite
ClampInputs == {NaN} \cup ((0 - MaxCount * 10)..(MaxCount * 10))

\* What a run of the settings handlers starts from and may spend: no
\* request, a limit settings.json held, set calls with any count.
SettingsBudgets ==
  { [starts |-> 0, lines |-> 0, limitChanges |-> MaxLimitChanges, rejects |-> 0,
     dirChanges |-> MaxDirChanges,
     limits |-> {clampConcurrentDownloads(x) : x \in ClampInputs}, dirs |-> {NoDir, Dir}, mtimes |-> {NoTimes}] }

\* titles: the one of four illegal characters among letters, every short
\* string of illegal characters, empty and white, plain, numbered,
\* with white space inside, and around the 120 characters kept
Letters(n) == [i \in 1..n |-> "a"]
Clip == <<"c", "l", "i", "p">>
Titles ==
  {<<"A", ":", "B", "/", "C", "*", "D", "?">>}
    \cup UNION {[1..k -> Illegal] : k \in 1..MaxIllegalLen}
    \cup {<<>>, <<" ">>, <<"\t", " ">>, <<" ", ":", " ">>}
    \cup {Clip, CandidateBase(Clip, 1), <<"a", " ", "\t", "b">>, <<" ", "a", "/">>}
    \cup {Letters(SliceLen + 1), Letters(SliceLen - 1) \o <<" ", "b">>}

\* titles of the requests that look for a free name
UniqueTitles == {Clip, CandidateBase(Clip, 1)}

\* the names the download directory may hold
Names == {CandidateName(sanitizeFilename(t), k, Mp4) : t \in UniqueTitles, k \in 0..MaxSuffix}

\* yt-dlp's temporary name: the id of the video
VideoId == <<"i", "d">>

Webm == <<".", "w", "e", "b", "m">>

\* files the directory of a finalization can hold
FinalNames ==
  {Join(DirPath(Dir), name) :
     name \in {CandidateName(Clip, 0, Mp4), CandidateName(Clip, 1, Mp4),
               VideoId \o Mp4, VideoId \o Mp3}}

\* task.outputFile when the process has closed: unset, a name built from the
\* title, or the destination yt-dlp printed
OutputFiles ==
  {<<>>} \cup
  {Join(DirPath(Dir), name) :
     name \in {CandidateName(Clip, 0, Mp4), CandidateName(Clip, 1, Mp4),
               VideoId \o Mp4, VideoId \o Webm}}

\* payload.title of a start whose paths are followed
PathTitles == {Clip, <<".", ".", "/", "x">>}

\* payload.existingFilePath: absent, a file of another directory, a file of
\* the download directory
ExistingPaths ==
  {<<>>, Join(DirPath(OtherDir), <<"x">> \o Mp4), Join(DirPath(Dir), Clip \o Mp4)}

\* the files followed: what yt-dlp writes and the existing ones
PathNames == {Join(DirPath(Dir), VideoId \o Mp4)} \cup (ExistingPaths \ {<<>>})

\* What a run of one task's paths starts from: no request of the queue, a
\* download directory that may be changed.
PathBudgets ==
  { [starts |-> 0, lines |-> 0, limitChanges |-> 0, rejects |-> 0,
     dirChanges |-> MaxDirChanges, limits |-> {DefaultMaxConcurrent}, dirs |-> {Dir}, mtimes |-> {NoTimes}] }

\* a field an event or an item does not carry (every field of the store's
\* items is written as a string, the percent too)
Undefined == "undefined"

\* the payloads of progress events: any field may be missing
ProgressPayloads ==
  [status : {Undefined, "downloading", "processing"}, title : {Undefined, "t"},
   filePath : {Undefined, "f"}, percent : {Undefined, "50"},
   speed : {Undefined, "s"}, eta : {Undefined, "e"}]

\* the files finalizeDownload may meet, those of one extension in every
\* order of age (the one audio file is the oldest)
MtimeOrders ==
  {t \in [FinalNames -> 1..Cardinality(FinalNames)] :
     /\ \A f, g \in FinalNames : t[f] = t[g] => f = g
     /\ \A f \in FinalNames : EndsWith(f, Mp3) => t[f] = 1}

\* What a run of the file-name functions starts from: no request.
FileBudgets ==
  { [starts |-> 0, lines |-> 0, limitChanges |-> 0, rejects |-> 0, dirChanges |-> 0,
     limits |-> {DefaultMaxConcurrent}, dirs |-> {Dir}, mtimes |-> {NoTimes}] }

VARIABLES
  files,                  \* names of the files in the download directory
  mtime,                  \* modification time of the files followed, by name
  resolved,               \* finalPath.absolutePath of request n, where it is followed
  deleting,               \* requests whose download:delete call awaits rm
  call,                   \* the file-name function last called, where it is, its result
  fin,                    \* finalizeDownload of one task: where it is, its locals, task.outputFile
  downloads,              \* the GUI store's downloads: no item, or the item of the one id followed
  maxConcurrentDownloads, \* settingsCache.maxConcurrentDownloads
  downloadDir,            \* settingsCache.downloadDir
  settingsWrites,         \* persistSettings calls of set-max-concurrent awaiting writeFile
  inflight,               \* download:start calls between validation and enqueue, by overrideId
  pendingQueue,           \* pendingQueue: sequence of request numbers
  activeDownloads,        \* activeDownloads: task id -> request number, NoReq = no entry
  isProcessingQueue,
  forceQuit,
  drainTask,              \* the entry processQueue awaits the spawn of, or NoReq
  drainMax,               \* processQueue's local maxConcurrent while it awaits a spawn, else 0
  dialogOpen,             \* before-quit awaits the message box
  nEnq,                   \* number of pendingQueue.push calls so far
  phase,                  \* where request n is
  taskId,                 \* id of request n
  status,                 \* task.status of the DownloadTask of request n
  events,                 \* download events broadcast for request n, in order
  enriching,              \* requests whose enrichMetadata has not finished
  errored,                \* requests whose child 'error' listener has run
  signaled,               \* requests whose process got kill('SIGINT')
  rejections,             \* download:start calls that rejected at validation
  limitSets,              \* settings:set-max-concurrent-downloads calls handled
  startsLeft, linesLeft, limitChangesLeft, rejectsLeft, dirChangesLeft

vars ==
  <<files, mtime, resolved, deleting, call, fin, downloads, maxConcurrentDownloads, downloadDir, settingsWrites, inflight, pendingQueue,
    activeDownloads, isProcessingQueue, forceQuit, drainTask, drainMax,
    dialogOpen, nEnq, phase, taskId, status, events, enriching, errored,
    signaled, rejections, limitSets, startsLeft, linesLeft, limitChangesLeft, rejectsLeft,
    dirChangesLeft>>

\* ----------------------------------------------------------- the registry

\* activeDownloads.size
ActiveSize(reg) == Cardinality({i \in DOMAIN reg : reg[i] # NoReq})
\* the tasks activeDownloads holds
Registered(reg) == {reg[i] : i \in DOMAIN reg} \ {NoReq}
\* the entries pendingQueue holds
InQueue(queue) == {queue[i] : i \in DOMAIN queue}

Event(type, st, pct, err) == [type |-> type, status |-> st, percent |-> pct, error |-> err]
QueuedEvent == Event("queued", "queued", 0, "")
ProgressEvent(st, pct) == Event("progress", st, pct, "")
CompletedEvent == Event("completed", "", NoPct, "")
FailedEvent(msg) == Event("failed", "", NoPct, msg)
RemovedEvent == Event("removed", "", NoPct, "")

\* ------------------------------------------------------------ processQueue

\* startPendingTask up to its await: returns at once when forceQuit is set,
\* otherwise calls exec() and waits for 'spawn'
startPendingTaskBegin(fq) == IF fq THEN "dropped" ELSE "spawning"

\* a shift that takes the newest entry
ShiftNewest(queue) ==
  [entry |-> queue[Len(queue)], rest |-> SubSeq(queue, 1, Len(queue) - 1)]

\* pendingQueue.shift()
Shift(queue) == [entry |-> Head(queue), rest |-> Tail(queue)]

\* a capacity test that stops one entry late
AtCapacityLate(size, limit) == size > limit

\* the capacity test of processQueue: true when the loop must stop
AtCapacity(size, limit) == size >= limit

\* One pass of the while loop of processQueue, from the loop test to the
\* await in startPendingTask: what is left of the queue, the entry taken
\* (NoReq if the loop ended), what became of it, the limit the pass read
\* (0 once the loop has ended and its local is gone), the flag.
DrainLoop(queue, reg, fq, setting) ==
  LET stop == [queue |-> queue, next |-> NoReq, to |-> "", max |-> 0, busy |-> FALSE]
      limit == getMaxConcurrentDownloads(setting)
  IN  IF fq \/ Len(queue) = 0 THEN stop
      ELSE IF AtCapacity(ActiveSize(reg), limit) THEN stop
      ELSE IF startPendingTaskBegin(fq) = "dropped"
        THEN [queue |-> Shift(queue).rest, next |-> Shift(queue).entry, to |-> "dropped",
              max |-> 0, busy |-> FALSE]
        ELSE [queue |-> Shift(queue).rest, next |-> Shift(queue).entry, to |-> "spawning",
              max |-> limit, busy |-> TRUE]

\* a processQueue without its guard
processQueueUnguarded(queue, reg, busy, fq, setting, lastMax) ==
  DrainLoop(queue, reg, fq, setting)

\* processQueue(): the guard, then the loop
processQueue(queue, reg, busy, fq, setting, lastMax) ==
  IF busy \/ fq
    THEN [queue |-> queue, next |-> NoReq, to |-> "", max |-> lastMax, busy |-> busy]
    ELSE DrainLoop(queue, reg, fq, setting)

\* the effect of a drain pass d on the queue, the flag and the drain's locals
ApplyDrain(d) ==
  /\ pendingQueue' = d.queue
  /\ isProcessingQueue' = d.busy
  /\ drainMax' = d.max
  /\ drainTask' = IF d.next # NoReq /\ d.to = "spawning" THEN d.next
                  ELSE IF d.busy THEN drainTask ELSE NoReq

\* phase after a drain pass d, starting from the phases ph
DrainPhase(ph, d) == IF d.next # NoReq THEN [ph EXCEPT ![d.next] = d.to] ELSE ph

\* a call of a file-name function: what was asked, the attempt counter of
\* its loop, whether it has returned, what it returned, whether the
\* directory stayed as it was while the call ran
Call(fn, title, overwrite, attempt, done, result, still) ==
  [fn |-> fn, title |-> title, overwrite |-> overwrite, attempt |-> attempt,
   done |-> done, result |-> result, still |-> still]
\* what stands for the result of a call that threw
Threw == <<"!">>
\* finalizeDownload of one task. pc: the await it stands at; outputFile,
\* title, audio, directory: the task's fields; existing: the
\* existingFilePath of a forced start; actualFile, attempt: locals; renamed: this
\* run has renamed; runs: runs ended; still: nothing else has changed the
\* directory since the first run began; kept: the last run found its file
\* under the target name; last: what the last run returned
NoFin ==
  [pc |-> "idle", directory |-> <<>>, existing |-> <<>>,
   outputFile |-> <<>>, title |-> <<>>, audio |-> FALSE,
   actualFile |-> <<>>, attempt |-> 0, renamed |-> FALSE, runs |-> 0,
   still |-> TRUE, kept |-> FALSE, last |-> <<>>, recorded |-> <<>>, threw |-> FALSE,
   filePath |-> <<>>, sized |-> FALSE, audioFormat |-> "mp3"]

NoCall == Call("none", <<>>, FALSE, 0, TRUE, <<>>, TRUE)

\* ------------------------------------------------------------------- Init

TypeOK ==
  /\ maxConcurrentDownloads \in MinConcurrent..MaxConcurrent
  /\ downloadDir \in {NoDir, Dir}
  /\ settingsWrites \in 0..MaxLimitChanges
  /\ isProcessingQueue \in BOOLEAN
  /\ forceQuit \in BOOLEAN
  /\ drainTask \in Reqs \cup {NoReq}
  /\ nEnq \in 0..MaxStarts
  /\ phase \in [Reqs -> {"unused", "pending", "spawning", "spawnfailed", "dropped",
                         "running", "deaf", "finalizing", "closed", "cancelled"}]

\* the state after start-up (loadSettings has filled settingsCache with the
\* defaults or with what settings.json holds) for the budget b
InitWith(b) ==
  /\ files = {}
  /\ mtime \in b.mtimes
  /\ resolved = [n \in Reqs |-> <<>>]
  /\ deleting = {}
  /\ call = NoCall
  /\ fin = NoFin
  /\ downloads = <<>>
  /\ settingsWrites = 0
  /\ inflight = [i \in 0..MaxStarts |-> 0]
  /\ pendingQueue = <<>>
  /\ activeDownloads = [i \in Reqs |-> NoReq]
  /\ isProcessingQueue = FALSE
  /\ forceQuit = FALSE
  /\ drainTask = NoReq
  /\ drainMax = 0
  /\ dialogOpen = FALSE
  /\ nEnq = 0
  /\ phase = [n \in Reqs |-> "unused"]
  /\ taskId = [n \in Reqs |-> NoId]
  /\ status = [n \in Reqs |-> "none"]
  /\ events = [n \in Reqs |-> <<>>]
  /\ enriching = {}
  /\ errored = {}
  /\ signaled = {}
  /\ rejections = 0
  /\ limitSets = 0
  /\ maxConcurrentDownloads \in b.limits
  /\ downloadDir \in b.dirs
  /\ rejectsLeft = b.rejects
  /\ dirChangesLeft = b.dirChanges
  /\ startsLeft = b.starts
  /\ linesLeft = b.lines
  /\ limitChangesLeft = b.limitChanges

Init == \E b \in QueueBudgets : InitWith(b)

InitTask == \E b \in TaskBudgets : InitWith(b)

InitSettings == \E b \in SettingsBudgets : InitWith(b)

InitFile == \E b \in FileBudgets : InitWith(b)

InitPath == \E b \in PathBudgets : InitWith(b)

\* What a run of finalizeDownload starts from: the process of the first of
\* two requests has closed with code 0 after its start event, under a limit
\* of one; the second waits in the queue.
InitFinal ==
  /\ files = {}
  /\ mtime \in MtimeOrders
  /\ resolved = [n \in Reqs |-> <<>>]
  /\ deleting = {}
  /\ call = NoCall
  /\ fin = NoFin
  /\ downloads = <<>>
  /\ settingsWrites = 0
  /\ inflight = [i \in 0..MaxStarts |-> 0]
  /\ pendingQueue = <<2>>
  /\ activeDownloads = [i \in Reqs |-> NoReq]
  /\ isProcessingQueue = FALSE
  /\ forceQuit = FALSE
  /\ drainTask = NoReq
  /\ drainMax = 0
  /\ dialogOpen = FALSE
  /\ nEnq = 2
  /\ phase = [n \in Reqs |-> IF n = 1 THEN "finalizing" ELSE IF n = 2 THEN "pending" ELSE "unused"]
  /\ taskId = [n \in Reqs |-> IF n \in {1, 2} THEN n ELSE NoId]
  /\ status = [n \in Reqs |-> IF n = 1 THEN "completed" ELSE IF n = 2 THEN "queued" ELSE "none"]
  /\ events = [n \in Reqs |-> IF n = 1 THEN <<QueuedEvent, ProgressEvent("downloading", 0)>>
                               ELSE IF n = 2 THEN <<QueuedEvent>> ELSE <<>>]
  /\ enriching = {}
  /\ errored = {}
  /\ signaled = {}
  /\ rejections = 0
  /\ limitSets = 0
  /\ maxConcurrentDownloads = MinConcurrent
  /\ downloadDir = Dir
  /\ rejectsLeft = 0
  /\ dirChangesLeft = 0
  /\ startsLeft = 0
  /\ linesLeft = 0
  /\ limitChangesLeft = 0

\* ---------------------------------------------------------- download:start

\* payload.overrideId: absent (a fresh randomUUID, modelled as the request's
\* own number), or the id of an earlier task (restartDownload passes item.id)
OverrideIds == {NoId} \cup {taskId[m] : m \in 1..nEnq}

\* download:start up to its first file-system await (mkdir): trims the URL,
\* reads the settings; rejects on an empty URL or a missing download directory
DownloadStart(url, overrideId) ==
  /\ IF Trim(url) = <<>>
       THEN /\ rejectsLeft > 0
            /\ rejectsLeft' = rejectsLeft - 1
            /\ rejections' = rejections + 1
            /\ UNCHANGED <<inflight, startsLeft>>
     ELSE IF downloadDir = NoDir
       THEN /\ rejectsLeft > 0
            /\ rejectsLeft' = rejectsLeft - 1
            /\ rejections' = rejections + 1
            /\ UNCHANGED <<inflight, startsLeft>>
     ELSE /\ startsLeft > 0
          /\ startsLeft' = startsLeft - 1
          /\ inflight' = [inflight EXCEPT ![overrideId] = @ + 1]
          /\ UNCHANGED <<rejections, rejectsLeft>>
  /\ UNCHANGED <<files, mtime, resolved, deleting, call, fin, downloads,
                 maxConcurrentDownloads, downloadDir, settingsWrites, pendingQueue,
                 activeDownloads, isProcessingQueue, forceQuit, drainTask, drainMax,
                 dialogOpen, nEnq, phase, taskId, status, events, enriching, errored,
                 signaled, limitSets, linesLeft, limitChangesLeft, dirChangesLeft>>

\* mkdir, getBundledBinary('yt-dlp') or ensureUniqueOutputPath throws: the
\* call rejects before anything is enqueued
StartIoFail(overrideId) ==
  /\ inflight[overrideId] > 0
  /\ inflight' = [inflight EXCEPT ![overrideId] = @ - 1]
  /\ UNCHANGED <<files, mtime, resolved, deleting, call, fin, downloads,
                 maxConcurrentDownloads, downloadDir, settingsWrites, pendingQueue,
                 activeDownloads, isProcessingQueue, forceQuit, drainTask, drainMax,
                 dialogOpen, nEnq, phase, taskId, status, events, enriching, errored,
                 signaled, rejections, limitSets, startsLeft, linesLeft, limitChangesLeft,
                 rejectsLeft, dirChangesLeft>>

\* the rest of download:start: enqueuePendingTask (push, processQueue), then
\* the queued event
\* the entry pushed and the drain called with no queued event broadcast
StartEnqueueUnannounced(overrideId) ==
  /\ inflight[overrideId] > 0
  /\ inflight' = [inflight EXCEPT ![overrideId] = @ - 1]
  /\ LET n == nEnq + 1
         d == processQueue(Append(pendingQueue, n), activeDownloads, isProcessingQueue,
                           forceQuit, maxConcurrentDownloads, drainMax)
     IN  /\ nEnq' = n
         /\ taskId' = [taskId EXCEPT ![n] = IF overrideId # NoId THEN overrideId ELSE n]
         /\ ApplyDrain(d)
         /\ phase' = DrainPhase([phase EXCEPT ![n] = "pending"], d)
         /\ UNCHANGED events
  /\ UNCHANGED <<files, mtime, resolved, deleting, call, fin, downloads,
                 maxConcurrentDownloads, downloadDir, settingsWrites, activeDownloads,
                 forceQuit, dialogOpen, status, enriching, errored, signaled, rejections,
                 limitSets, startsLeft, linesLeft, limitChangesLeft, rejectsLeft,
                 dirChangesLeft>>

\* the end of the download:start handler: enqueuePendingTask, then the
\* queued event
Enqueued(overrideId) ==
  /\ inflight[overrideId] > 0
  /\ inflight' = [inflight EXCEPT ![overrideId] = @ - 1]
  /\ LET n == nEnq + 1
         d == processQueue(Append(pendingQueue, n), activeDownloads, isProcessingQueue,
                           forceQuit, maxConcurrentDownloads, drainMax)
     IN  /\ nEnq' = n
         /\ taskId' = [taskId EXCEPT ![n] = IF overrideId # NoId THEN overrideId ELSE n]
         /\ ApplyDrain(d)
         /\ phase' = DrainPhase([phase EXCEPT ![n] = "pending"], d)
         /\ events' = [events EXCEPT ![n] = Append(@, QueuedEvent)]

StartEnqueue(overrideId) ==
  /\ Enqueued(overrideId)
  /\ UNCHANGED <<files, mtime, resolved, deleting, call, fin, downloads,
                 maxConcurrentDownloads, downloadDir, settingsWrites, activeDownloads,
                 forceQuit, dialogOpen, status, enriching, errored, signaled, rejections,
                 limitSets, startsLeft, linesLeft, limitChangesLeft, rejectsLeft,
                 dirChangesLeft>>

\* download:delete that also takes the entry of the id out of the pending queue
DownloadDeleteDequeues(n, filePath) ==
  /\ taskId[n] # NoId
  /\ n \notin deleting
  /\ \A i \in DOMAIN events[n] : events[n][i] # RemovedEvent
  /\ pendingQueue' = SelectSeq(pendingQueue, LAMBDA m : taskId[m] # taskId[n])
  /\ IF filePath # <<>>
       THEN /\ files' = files \ {filePath}
            /\ deleting' = deleting \cup {n}
            /\ UNCHANGED events
       ELSE /\ events' = [events EXCEPT ![n] = Append(@, RemovedEvent)]
            /\ UNCHANGED <<files, deleting>>
  /\ UNCHANGED <<mtime, resolved, call, fin, downloads, maxConcurrentDownloads, downloadDir,
                 settingsWrites, inflight, activeDownloads, isProcessingQueue, forceQuit,
                 drainTask, drainMax, dialogOpen, nEnq, phase, taskId, status, enriching,
                 errored, signaled, rejections, limitSets, startsLeft, linesLeft,
                 limitChangesLeft, rejectsLeft, dirChangesLeft>>

\* download:delete for the item of request n, up to its await of rm: with a
\* filePath the file is removed (force: a missing file is no error), without
\* one the removed event is broadcast at once. The store drops the item at
\* the removed event, so an id is deleted once.
DownloadDelete(n, filePath) ==
  /\ taskId[n] # NoId
  /\ n \notin deleting
  /\ \A i \in DOMAIN events[n] : events[n][i] # RemovedEvent
  /\ IF filePath # <<>>
       THEN /\ files' = files \ {filePath}
            /\ deleting' = deleting \cup {n}
            /\ UNCHANGED events
       ELSE /\ events' = [events EXCEPT ![n] = Append(@, RemovedEvent)]
            /\ UNCHANGED <<files, deleting>>
  /\ UNCHANGED <<mtime, resolved, call, fin, downloads, maxConcurrentDownloads, downloadDir,
                 settingsWrites, inflight, pendingQueue, activeDownloads, isProcessingQueue,
                 forceQuit, drainTask, drainMax, dialogOpen, nEnq, phase, taskId, status,
                 enriching, errored, signaled, rejections, limitSets, startsLeft, linesLeft,
                 limitChangesLeft, rejectsLeft, dirChangesLeft>>

\* download:delete after rm has returned or thrown: the removed event
DeleteRemoved(n) ==
  /\ n \in deleting
  /\ deleting' = deleting \ {n}
  /\ events' = [events EXCEPT ![n] = Append(@, RemovedEvent)]
  /\ UNCHANGED <<files, mtime, resolved, call, fin, downloads, maxConcurrentDownloads,
                 downloadDir, settingsWrites, inflight, pendingQueue, activeDownloads,
                 isProcessingQueue, forceQuit, drainTask, drainMax, dialogOpen, nEnq, phase,
                 taskId, status, enriching, errored, signaled, rejections, limitSets,
                 startsLeft, linesLeft, limitChangesLeft, rejectsLeft, dirChangesLeft>>

\* the handler from ensureUniqueOutputPath on, for a request that does not
\* overwrite: the path is resolved against the files of the directory, the
\* entry with that path is pushed
StartEnqueuePath(overrideId, title) ==
  /\ downloadDir # NoDir
  /\ resolved' = [resolved EXCEPT ![nEnq + 1] =
                   ensureUniqueOutputPath(DirPath(downloadDir), title, FALSE, files)]
  /\ Enqueued(overrideId)
  /\ UNCHANGED <<files, mtime, deleting, call, fin, downloads, maxConcurrentDownloads,
                 downloadDir, settingsWrites, activeDownloads, forceQuit, dialogOpen, status,
                 enriching, errored, signaled, rejections, limitSets, startsLeft, linesLeft,
                 limitChangesLeft, rejectsLeft, dirChangesLeft>>

\* ------------------------------------------------------- startPendingTask

\* handleFailure(task, message)
handleFailure(n, msg) ==
  /\ status' = [status EXCEPT ![n] = "failed"]
  /\ events' = [events EXCEPT ![n] = Append(@, FailedEvent(msg))]

\* a set that stores nothing
RegistrySkip(reg, id, n) == reg

\* activeDownloads.set(id, task)
RegistrySet(reg, id, n) == [reg EXCEPT ![id] = n]

\* a delete that leaves the entry in place
RegistryKeep(reg, id) == reg

\* activeDownloads.delete(id)
RegistryDelete(reg, id) == [reg EXCEPT ![id] = NoReq]

\* a 'spawn' after which the loop goes on with the limit it read before
SpawnOkStaleLimit(n, piped) ==
  /\ phase[n] = "spawning"
  /\ LET reg == RegistrySet(activeDownloads, taskId[n], n)
         d == DrainLoop(pendingQueue, reg, forceQuit, drainMax)
     IN  /\ activeDownloads' = reg
         /\ ApplyDrain(d)
         /\ phase' = DrainPhase([phase EXCEPT ![n] = IF piped THEN "running" ELSE "deaf"], d)
  /\ IF piped
       THEN /\ status' = [status EXCEPT ![n] = "queued"]
            /\ events' = [events EXCEPT ![n] = Append(@, ProgressEvent("downloading", 0))]
       ELSE /\ status' = [status EXCEPT ![n] = "failed"]
            /\ events' = [events EXCEPT ![n] =
                 @ \o <<ProgressEvent("downloading", 0), FailedEvent("stdio")>>]
  /\ enriching' = enriching \cup {n}
  /\ UNCHANGED <<files, mtime, resolved, deleting, call, fin, downloads,
                 maxConcurrentDownloads, downloadDir, settingsWrites, inflight, forceQuit,
                 dialogOpen, nEnq, taskId, errored, signaled, rejections, limitSets,
                 startsLeft, linesLeft, limitChangesLeft, rejectsLeft, dirChangesLeft>>

\* 'spawn' arrives: startPendingTask registers the task, broadcasts the first
\* progress event, starts enrichMetadata and attaches the listeners
\* (setupProcessListeners); processQueue then goes round its loop again
SpawnOk(n, piped) ==
  /\ phase[n] = "spawning"
  /\ LET reg == RegistrySet(activeDownloads, taskId[n], n)
         d == DrainLoop(pendingQueue, reg, forceQuit, maxConcurrentDownloads)
     IN  /\ activeDownloads' = reg
         /\ ApplyDrain(d)
         /\ phase' = DrainPhase([phase EXCEPT ![n] = IF piped THEN "running" ELSE "deaf"], d)
  /\ IF piped
       THEN /\ status' = [status EXCEPT ![n] = "queued"]
            /\ events' = [events EXCEPT ![n] = Append(@, ProgressEvent("downloading", 0))]
       ELSE /\ status' = [status EXCEPT ![n] = "failed"]
            /\ events' = [events EXCEPT ![n] =
                 @ \o <<ProgressEvent("downloading", 0), FailedEvent("stdio")>>]
  /\ enriching' = enriching \cup {n}
  /\ UNCHANGED <<files, mtime, resolved, deleting, call, fin, downloads,
                 maxConcurrentDownloads, downloadDir, settingsWrites, inflight, forceQuit,
                 dialogOpen, nEnq, taskId, errored, signaled, rejections, limitSets,
                 startsLeft, linesLeft, limitChangesLeft, rejectsLeft, dirChangesLeft>>

\* a spawn failure after which processQueue leaves its loop
SpawnErrorEndsDrain(n) ==
  /\ phase[n] = "spawning"
  /\ phase' = [phase EXCEPT ![n] = "spawnfailed"]
  /\ isProcessingQueue' = FALSE
  /\ drainTask' = NoReq
  /\ drainMax' = 0
  /\ events' = [events EXCEPT ![n] = Append(@, FailedEvent("spawn"))]
  /\ UNCHANGED <<files, mtime, resolved, deleting, call, fin, downloads,
                 maxConcurrentDownloads, downloadDir, settingsWrites, inflight, pendingQueue,
                 activeDownloads, forceQuit, dialogOpen, nEnq, taskId, status, enriching,
                 errored, signaled, rejections, limitSets, startsLeft, linesLeft,
                 limitChangesLeft, rejectsLeft, dirChangesLeft>>

\* 'error' arrives instead of 'spawn': startPendingTask throws, processQueue
\* broadcasts failed for the entry and goes round its loop again
SpawnError(n) ==
  /\ phase[n] = "spawning"
  /\ LET d == DrainLoop(pendingQueue, activeDownloads, forceQuit, maxConcurrentDownloads)
     IN  /\ ApplyDrain(d)
         /\ phase' = DrainPhase([phase EXCEPT ![n] = "spawnfailed"], d)
  /\ events' = [events EXCEPT ![n] = Append(@, FailedEvent("spawn"))]
  /\ UNCHANGED <<files, mtime, resolved, deleting, call, fin, downloads,
                 maxConcurrentDownloads, downloadDir, settingsWrites, inflight,
                 activeDownloads, forceQuit, dialogOpen, nEnq, taskId, status, enriching,
                 errored, signaled, rejections, limitSets, startsLeft, linesLeft,
                 limitChangesLeft, rejectsLeft, dirChangesLeft>>

\* enrichMetadata finishes: a progress event without status when the
\* metadata holds anything, nothing otherwise (also when the fetch throws)
EnrichMetadata(n, found) ==
  /\ n \in enriching
  /\ enriching' = enriching \ {n}
  /\ events' = IF found
                 THEN [events EXCEPT ![n] = Append(@, ProgressEvent("", NoPct))]
                 ELSE events
  /\ UNCHANGED <<files, mtime, resolved, deleting, call, fin, downloads,
                 maxConcurrentDownloads, downloadDir, settingsWrites, inflight, pendingQueue,
                 activeDownloads, isProcessingQueue, forceQuit, drainTask, drainMax,
                 dialogOpen, nEnq, phase, taskId, status, errored, signaled, rejections,
                 limitSets, startsLeft, linesLeft, limitChangesLeft, rejectsLeft,
                 dirChangesLeft>>

\* -------------------------------------------------- setupProcessListeners

\* handleLine(raw) of the stdout/stderr readers of request n
HandleLine(n, line) ==
  /\ phase[n] = "running"
  /\ linesLeft > 0
  /\ linesLeft' = linesLeft - 1
  /\ IF line.prefix = "blank"
       THEN UNCHANGED <<status, events>>
     ELSE IF line.prefix = "dest"
       THEN /\ events' = [events EXCEPT ![n] = Append(@,
                 ProgressEvent("", IF status[n] = "completed" THEN 100 ELSE 0))]
            /\ UNCHANGED status
     ELSE IF line.pct # NoPct
       THEN /\ status' = [status EXCEPT ![n] = "downloading"]
            /\ events' = [events EXCEPT ![n] = Append(@, ProgressEvent("downloading", line.pct))]
     ELSE IF line.prefix = "merger"
       THEN /\ status' = [status EXCEPT ![n] = "processing"]
            /\ events' = [events EXCEPT ![n] = Append(@, ProgressEvent("processing", 100))]
     ELSE IF line.prefix = "error"
       THEN handleFailure(n, "line")
     ELSE UNCHANGED <<status, events>>
  /\ UNCHANGED <<files, mtime, resolved, deleting, call, fin, downloads,
                 maxConcurrentDownloads, downloadDir, settingsWrites, inflight, pendingQueue,
                 activeDownloads, isProcessingQueue, forceQuit, drainTask, drainMax,
                 dialogOpen, nEnq, phase, taskId, enriching, errored, signaled, rejections,
                 limitSets, startsLeft, limitChangesLeft, rejectsLeft, dirChangesLeft>>

\* child.once('error', ...) after the spawn
ChildError(n) ==
  /\ phase[n] = "running"
  /\ n \notin errored
  /\ errored' = errored \cup {n}
  /\ handleFailure(n, "childerror")
  /\ UNCHANGED <<files, mtime, resolved, deleting, call, fin, downloads,
                 maxConcurrentDownloads, downloadDir, settingsWrites, inflight, pendingQueue,
                 activeDownloads, isProcessingQueue, forceQuit, drainTask, drainMax,
                 dialogOpen, nEnq, phase, taskId, enriching, signaled, rejections, limitSets,
                 startsLeft, linesLeft, limitChangesLeft, rejectsLeft, dirChangesLeft>>

\* the close handler's step for an exit code: with 0 the task is completed
\* whatever it was; otherwise it fails unless it is failed already
CloseStatus(n, code) ==
  IF code = 0
    THEN /\ status' = [status EXCEPT ![n] = "completed"]
         /\ UNCHANGED events
  ELSE IF status[n] # "failed"
    THEN handleFailure(n, "exit")
    ELSE UNCHANGED <<status, events>>

\* child.once('close', ...): drops the registry entry of the task's id; with
\* code 0 sets completed and awaits finalizeDownload, otherwise fails the
\* task unless it is failed already and calls processQueue
Close(n, code) ==
  /\ phase[n] = "running"
  /\ CloseStatus(n, code)
  /\ LET reg == RegistryDelete(activeDownloads, taskId[n])
     IN  /\ activeDownloads' = reg
         /\ IF code = 0
              THEN /\ phase' = [phase EXCEPT ![n] = "finalizing"]
                   /\ UNCHANGED <<pendingQueue, isProcessingQueue, drainTask, drainMax>>
              ELSE IF ~forceQuit
                THEN LET d == processQueue(pendingQueue, reg, isProcessingQueue,
                                           forceQuit, maxConcurrentDownloads, drainMax)
                     IN  /\ ApplyDrain(d)
                         /\ phase' = DrainPhase([phase EXCEPT ![n] = "closed"], d)
                ELSE /\ phase' = [phase EXCEPT ![n] = "closed"]
                     /\ UNCHANGED <<pendingQueue, isProcessingQueue, drainTask, drainMax>>
  /\ UNCHANGED <<files, mtime, resolved, deleting, call, fin, downloads,
                 maxConcurrentDownloads, downloadDir, settingsWrites, inflight, forceQuit,
                 dialogOpen, nEnq, taskId, enriching, errored, signaled, rejections,
                 limitSets, startsLeft, linesLeft, limitChangesLeft, rejectsLeft,
                 dirChangesLeft>>

\* the completed event with no call of processQueue after it
CompletedOnly(n) ==
  /\ events' = [events EXCEPT ![n] = Append(@, CompletedEvent)]
  /\ phase' = [phase EXCEPT ![n] = "closed"]
  /\ UNCHANGED <<pendingQueue, isProcessingQueue, drainTask, drainMax>>

\* the end of the close handler for code 0: the completed event, then
\* processQueue unless the application quits
Completed(n) ==
  /\ events' = [events EXCEPT ![n] = Append(@, CompletedEvent)]
  /\ IF ~forceQuit
       THEN LET d == processQueue(pendingQueue, activeDownloads, isProcessingQueue,
                                  forceQuit, maxConcurrentDownloads, drainMax)
            IN  /\ ApplyDrain(d)
                /\ phase' = DrainPhase([phase EXCEPT ![n] = "closed"], d)
       ELSE /\ phase' = [phase EXCEPT ![n] = "closed"]
            /\ UNCHANGED <<pendingQueue, isProcessingQueue, drainTask, drainMax>>

\* the close handler after finalizeDownload and the size stat: the completed
\* event, then processQueue
CloseFinish(n) ==
  /\ phase[n] = "finalizing"
  /\ Completed(n)
  /\ UNCHANGED <<files, mtime, resolved, deleting, call, fin, downloads,
                 maxConcurrentDownloads, downloadDir, settingsWrites, inflight,
                 activeDownloads, forceQuit, dialogOpen, nEnq, taskId, status, enriching,
                 errored, signaled, rejections, limitSets, startsLeft, linesLeft,
                 limitChangesLeft, rejectsLeft, dirChangesLeft>>

\* -------------------------------------------------------------- file names

\* a call of sanitizeFilename
SanitizeFilenameCall(title) ==
  /\ call.done
  /\ call' = Call("sanitizeFilename", title, FALSE, 0, TRUE, sanitizeFilename(title), TRUE)
  /\ UNCHANGED <<files, mtime, resolved, deleting, fin, downloads, maxConcurrentDownloads,
                 downloadDir, settingsWrites, inflight, pendingQueue, activeDownloads,
                 isProcessingQueue, forceQuit, drainTask, drainMax, dialogOpen, nEnq, phase,
                 taskId, status, events, enriching, errored, signaled, rejections, limitSets,
                 startsLeft, linesLeft, limitChangesLeft, rejectsLeft, dirChangesLeft>>

\* ensureUniqueOutputPath up to its first await: with overwrite it returns
\* the bare name at once, otherwise it asks stat for the bare name
EnsureUniqueBegin(title, overwrite) ==
  /\ call.done
  /\ call' = IF overwrite
               THEN Call("ensureUniqueOutputPath", title, TRUE, 0, TRUE,
                         CandidateName(sanitizeFilename(title), 0, Mp4), TRUE)
               ELSE Call("ensureUniqueOutputPath", title, FALSE, 0, FALSE, <<>>, TRUE)
  /\ UNCHANGED <<files, mtime, resolved, deleting, fin, downloads, maxConcurrentDownloads,
                 downloadDir, settingsWrites, inflight, pendingQueue, activeDownloads,
                 isProcessingQueue, forceQuit, drainTask, drainMax, dialogOpen, nEnq, phase,
                 taskId, status, events, enriching, errored, signaled, rejections, limitSets,
                 startsLeft, linesLeft, limitChangesLeft, rejectsLeft, dirChangesLeft>>

\* a loop that returns its candidate without asking stat
EnsureUniqueNoStat ==
  /\ call.fn = "ensureUniqueOutputPath"
  /\ ~call.done
  /\ call' = [call EXCEPT !.done = TRUE,
                         !.result = CandidateName(sanitizeFilename(call.title), call.attempt, Mp4)]
  /\ UNCHANGED <<files, mtime, resolved, deleting, fin, downloads, maxConcurrentDownloads,
                 downloadDir, settingsWrites, inflight, pendingQueue, activeDownloads,
                 isProcessingQueue, forceQuit, drainTask, drainMax, dialogOpen, nEnq, phase,
                 taskId, status, events, enriching, errored, signaled, rejections, limitSets,
                 startsLeft, linesLeft, limitChangesLeft, rejectsLeft, dirChangesLeft>>

\* stat answers: the candidate exists and the loop asks for the next one,
\* or ENOENT and the candidate is returned
EnsureUniqueStat ==
  /\ call.fn = "ensureUniqueOutputPath"
  /\ ~call.done
  /\ LET candidate == CandidateName(sanitizeFilename(call.title), call.attempt, Mp4)
     IN  call' = IF candidate \in files
                   THEN [call EXCEPT !.attempt = @ + 1]
                   ELSE [call EXCEPT !.done = TRUE, !.result = candidate]
  /\ UNCHANGED <<files, mtime, resolved, deleting, fin, downloads, maxConcurrentDownloads,
                 downloadDir, settingsWrites, inflight, pendingQueue, activeDownloads,
                 isProcessingQueue, forceQuit, drainTask, drainMax, dialogOpen, nEnq, phase,
                 taskId, status, events, enriching, errored, signaled, rejections, limitSets,
                 startsLeft, linesLeft, limitChangesLeft, rejectsLeft, dirChangesLeft>>

\* stat fails with another error than ENOENT: the call throws
EnsureUniqueThrow ==
  /\ call.fn = "ensureUniqueOutputPath"
  /\ ~call.done
  /\ call' = [call EXCEPT !.done = TRUE, !.result = Threw]
  /\ UNCHANGED <<files, mtime, resolved, deleting, fin, downloads, maxConcurrentDownloads,
                 downloadDir, settingsWrites, inflight, pendingQueue, activeDownloads,
                 isProcessingQueue, forceQuit, drainTask, drainMax, dialogOpen, nEnq, phase,
                 taskId, status, events, enriching, errored, signaled, rejections, limitSets,
                 startsLeft, linesLeft, limitChangesLeft, rejectsLeft, dirChangesLeft>>

\* something outside creates or removes a file of the directory
FileAppears(name) ==
  /\ name \notin files
  /\ files' = files \cup {name}
  /\ call' = IF call.done THEN call ELSE [call EXCEPT !.still = FALSE]
  /\ fin' = IF fin.pc = "idle" THEN fin ELSE [fin EXCEPT !.still = FALSE]
  /\ UNCHANGED <<mtime, resolved, deleting, downloads, maxConcurrentDownloads, downloadDir,
                 settingsWrites, inflight, pendingQueue, activeDownloads, isProcessingQueue,
                 forceQuit, drainTask, drainMax, dialogOpen, nEnq, phase, taskId, status,
                 events, enriching, errored, signaled, rejections, limitSets, startsLeft,
                 linesLeft, limitChangesLeft, rejectsLeft, dirChangesLeft>>

FileVanishes(name) ==
  /\ name \in files
  /\ files' = files \ {name}
  /\ call' = IF call.done THEN call ELSE [call EXCEPT !.still = FALSE]
  /\ fin' = IF fin.pc = "idle" THEN fin ELSE [fin EXCEPT !.still = FALSE]
  /\ UNCHANGED <<mtime, resolved, deleting, downloads, maxConcurrentDownloads, downloadDir,
                 settingsWrites, inflight, pendingQueue, activeDownloads, isProcessingQueue,
                 forceQuit, drainTask, drainMax, dialogOpen, nEnq, phase, taskId, status,
                 events, enriching, errored, signaled, rejections, limitSets, startsLeft,
                 linesLeft, limitChangesLeft, rejectsLeft, dirChangesLeft>>

\* ------------------------------------------------------ the GUI's store

\* a ?? b
Coalesce(a, b) == IF a = Undefined THEN b ELSE a

\* updateDownload(id, data) where data has the keys status, title and
\* filePath: { ...item, ...data } takes them from data, undefined or not, and
\* the progress fields are merged with ??
updateDownload(item, data) ==
  [item EXCEPT !.status = data.status, !.title = data.title, !.filePath = data.filePath,
               !.percent = Coalesce(data.percent, item.percent),
               !.speed = Coalesce(data.speed, item.speed),
               !.eta = Coalesce(data.eta, item.eta)]

\* case 'queued': addDownload(payload) puts the item first, or merges it
\* into the item of the same id
OnQueued ==
  /\ LET item == [status |-> "queued", title |-> "q", filePath |-> "p", percent |-> "0",
                  speed |-> Undefined, eta |-> Undefined, error |-> Undefined]
     IN  downloads' = IF downloads = <<>> THEN <<item>>
                      ELSE <<[downloads[1] EXCEPT !.status = item.status, !.title = item.title,
                                                  !.filePath = item.filePath,
                                                  !.percent = item.percent]>>
  /\ UNCHANGED <<files, mtime, resolved, deleting, call, fin, maxConcurrentDownloads,
                 downloadDir, settingsWrites, inflight, pendingQueue, activeDownloads,
                 isProcessingQueue, forceQuit, drainTask, drainMax, dialogOpen, nEnq, phase,
                 taskId, status, events, enriching, errored, signaled, rejections, limitSets,
                 startsLeft, linesLeft, limitChangesLeft, rejectsLeft, dirChangesLeft>>

\* case 'progress': the handler builds data from the payload, with the
\* current item's value behind ?? for the title and the progress fields, and
\* calls updateDownload
OnProgress(payload) ==
  /\ downloads # <<>>
  /\ LET current == downloads[1]
         data == [status |-> payload.status,
                  title |-> Coalesce(payload.title, current.title),
                  filePath |-> payload.filePath,
                  percent |-> Coalesce(payload.percent, current.percent),
                  speed |-> Coalesce(payload.speed, current.speed),
                  eta |-> Coalesce(payload.eta, current.eta)]
     IN  downloads' = <<updateDownload(current, data)>>
  /\ UNCHANGED <<files, mtime, resolved, deleting, call, fin, maxConcurrentDownloads,
                 downloadDir, settingsWrites, inflight, pendingQueue, activeDownloads,
                 isProcessingQueue, forceQuit, drainTask, drainMax, dialogOpen, nEnq, phase,
                 taskId, status, events, enriching, errored, signaled, rejections, limitSets,
                 startsLeft, linesLeft, limitChangesLeft, rejectsLeft, dirChangesLeft>>

\* case 'completed'
OnCompleted(filePath) ==
  /\ downloads # <<>>
  /\ downloads' = <<[downloads[1] EXCEPT !.status = "completed", !.filePath = filePath,
                                         !.percent = "100"]>>
  /\ UNCHANGED <<files, mtime, resolved, deleting, call, fin, maxConcurrentDownloads,
                 downloadDir, settingsWrites, inflight, pendingQueue, activeDownloads,
                 isProcessingQueue, forceQuit, drainTask, drainMax, dialogOpen, nEnq, phase,
                 taskId, status, events, enriching, errored, signaled, rejections, limitSets,
                 startsLeft, linesLeft, limitChangesLeft, rejectsLeft, dirChangesLeft>>

\* case 'failed'
OnFailed ==
  /\ downloads # <<>>
  /\ downloads' = <<[downloads[1] EXCEPT !.status = "failed", !.error = "e"]>>
  /\ UNCHANGED <<files, mtime, resolved, deleting, call, fin, maxConcurrentDownloads,
                 downloadDir, settingsWrites, inflight, pendingQueue, activeDownloads,
                 isProcessingQueue, forceQuit, drainTask, drainMax, dialogOpen, nEnq, phase,
                 taskId, status, events, enriching, errored, signaled, rejections, limitSets,
                 startsLeft, linesLeft, limitChangesLeft, rejectsLeft, dirChangesLeft>>

\* case 'removed'
OnRemoved ==
  /\ downloads # <<>>
  /\ downloads' = <<>>
  /\ UNCHANGED <<files, mtime, resolved, deleting, call, fin, maxConcurrentDownloads,
                 downloadDir, settingsWrites, inflight, pendingQueue, activeDownloads,
                 isProcessingQueue, forceQuit, drainTask, drainMax, dialogOpen, nEnq, phase,
                 taskId, status, events, enriching, errored, signaled, rejections, limitSets,
                 startsLeft, linesLeft, limitChangesLeft, rejectsLeft, dirChangesLeft>>

\* ---------------------------------------------------------- finalizeDownload

\* a run ends and returns task.outputFile
Returned(f, kept) ==
  [f EXCEPT !.pc = "done", !.runs = @ + 1, !.kept = kept, !.last = f.outputFile]

\* the file is found: task.outputFile is set to it and ensureFinalFilePath begins
Found(f, file) ==
  [f EXCEPT !.pc = "target", !.actualFile = file, !.outputFile = file, !.attempt = 0]

\* the run begins: without task.outputFile it returns at once, otherwise it
\* asks stat for task.outputFile
Begun(f) ==
  IF f.outputFile = <<>>
    THEN Returned([f EXCEPT !.renamed = FALSE, !.actualFile = <<>>, !.threw = FALSE,
                                   !.recorded = f.outputFile], FALSE)
    ELSE [f EXCEPT !.pc = "stat1", !.renamed = FALSE, !.actualFile = <<>>, !.attempt = 0,
                   !.threw = FALSE, !.recorded = f.outputFile]

\* download:start as far as the task's paths go: the directory is the
\* download directory of the settings read at the start of the call; the
\* output file is the existing path of a forced start that names one, else
\* what ensureUniqueOutputPath returns for the directory (the bare name with
\* force, else the name with the suffix the loop ends at); the title is taken
\* from that name; with force the file is removed
ResolveFinalPath(title, audio, force, existingFilePath, attempt) ==
  /\ fin.pc = "idle"
  /\ downloadDir # NoDir
  /\ force => attempt = 0
  /\ LET directory == DirPath(downloadDir)
         expectedExt == ExpectedExt(audio)
         retry == force /\ existingFilePath # <<>>
         absolutePath ==
           IF retry THEN existingFilePath
           ELSE Join(directory, CandidateName(sanitizeFilename(title), attempt, expectedExt))
         initialTitle == IF retry THEN title ELSE BaseName(absolutePath, expectedExt)
     IN  /\ fin' = [NoFin EXCEPT !.pc = "started", !.directory = directory,
                                 !.existing = IF retry THEN existingFilePath ELSE <<>>,
                                 !.outputFile = absolutePath, !.title = initialTitle,
                                 !.audio = audio]
         /\ files' = IF force THEN files \ {absolutePath} ELSE files
  /\ UNCHANGED <<mtime, resolved, deleting, call, downloads, maxConcurrentDownloads,
                 downloadDir, settingsWrites, inflight, pendingQueue, activeDownloads,
                 isProcessingQueue, forceQuit, drainTask, drainMax, dialogOpen, nEnq, phase,
                 taskId, status, events, enriching, errored, signaled, rejections, limitSets,
                 startsLeft, linesLeft, limitChangesLeft, rejectsLeft, dirChangesLeft>>

\* a Destination line whose directory is the download directory of now
HandleDestinationNow(ext) ==
  /\ fin.pc = "started"
  /\ downloadDir # NoDir
  /\ fin' = [fin EXCEPT !.outputFile = Join(DirPath(downloadDir), VideoId \o ext)]
  /\ UNCHANGED <<files, mtime, resolved, deleting, call, downloads, maxConcurrentDownloads,
                 downloadDir, settingsWrites, inflight, pendingQueue, activeDownloads,
                 isProcessingQueue, forceQuit, drainTask, drainMax, dialogOpen, nEnq, phase,
                 taskId, status, events, enriching, errored, signaled, rejections, limitSets,
                 startsLeft, linesLeft, limitChangesLeft, rejectsLeft, dirChangesLeft>>

\* handleLine for "[download] Destination: ...": yt-dlp names the file by
\* its output template, the %(id)s.%(ext)s of the directory download:start
\* read, and task.outputFile becomes that path
HandleDestination(ext) ==
  /\ fin.pc = "started"
  /\ fin' = [fin EXCEPT !.outputFile = Join(fin.directory, VideoId \o ext)]
  /\ UNCHANGED <<files, mtime, resolved, deleting, call, downloads, maxConcurrentDownloads,
                 downloadDir, settingsWrites, inflight, pendingQueue, activeDownloads,
                 isProcessingQueue, forceQuit, drainTask, drainMax, dialogOpen, nEnq, phase,
                 taskId, status, events, enriching, errored, signaled, rejections, limitSets,
                 startsLeft, linesLeft, limitChangesLeft, rejectsLeft, dirChangesLeft>>

\* the close handler calls finalizeDownload(task)
FinalizeBegin(outputFile, title, audio, audioFormat) ==
  /\ fin.pc = "idle"
  /\ fin' = Begun([NoFin EXCEPT !.directory = DirPath(Dir), !.outputFile = outputFile,
                                !.title = title, !.audio = audio,
                                !.audioFormat = audioFormat])
  /\ UNCHANGED <<files, mtime, resolved, deleting, call, downloads, maxConcurrentDownloads,
                 downloadDir, settingsWrites, inflight, pendingQueue, activeDownloads,
                 isProcessingQueue, forceQuit, drainTask, drainMax, dialogOpen, nEnq, phase,
                 taskId, status, events, enriching, errored, signaled, rejections, limitSets,
                 startsLeft, linesLeft, limitChangesLeft, rejectsLeft, dirChangesLeft>>

\* finalizeDownload is called on the task of a start, or again
FinalizeAgain ==
  /\ fin.pc \in {"started", "done"}
  /\ fin.runs < MaxRuns
  /\ fin' = Begun(fin)
  /\ UNCHANGED <<files, mtime, resolved, deleting, call, downloads, maxConcurrentDownloads,
                 downloadDir, settingsWrites, inflight, pendingQueue, activeDownloads,
                 isProcessingQueue, forceQuit, drainTask, drainMax, dialogOpen, nEnq, phase,
                 taskId, status, events, enriching, errored, signaled, rejections, limitSets,
                 startsLeft, linesLeft, limitChangesLeft, rejectsLeft, dirChangesLeft>>

\* method 1: stat(task.outputFile)
FinalizeStatOutput ==
  /\ fin.pc = "stat1"
  /\ fin' = IF fin.outputFile \in files
              THEN Found(fin, fin.outputFile)
              ELSE [fin EXCEPT !.pc = "stat2"]
  /\ UNCHANGED <<files, mtime, resolved, deleting, call, downloads, maxConcurrentDownloads,
                 downloadDir, settingsWrites, inflight, pendingQueue, activeDownloads,
                 isProcessingQueue, forceQuit, drainTask, drainMax, dialogOpen, nEnq, phase,
                 taskId, status, events, enriching, errored, signaled, rejections, limitSets,
                 startsLeft, linesLeft, limitChangesLeft, rejectsLeft, dirChangesLeft>>

\* method 2: stat of the base name with the expected extension
FinalizeStatExpected ==
  /\ fin.pc = "stat2"
  /\ LET expectedFile ==
           Join(fin.directory,
                BaseName(fin.outputFile, ExtName(fin.outputFile)) \o ExpectedExt(fin.audio))
     IN  fin' = IF expectedFile \in files
                  THEN Found(fin, expectedFile)
                  ELSE [fin EXCEPT !.pc = "readdir"]
  /\ UNCHANGED <<files, mtime, resolved, deleting, call, downloads, maxConcurrentDownloads,
                 downloadDir, settingsWrites, inflight, pendingQueue, activeDownloads,
                 isProcessingQueue, forceQuit, drainTask, drainMax, dialogOpen, nEnq, phase,
                 taskId, status, events, enriching, errored, signaled, rejections, limitSets,
                 startsLeft, linesLeft, limitChangesLeft, rejectsLeft, dirChangesLeft>>

\* method 3: the newest file of the directory with the expected extension
\* (any of them: the model keeps no mtime); none, or a listing or stat that
\* throws, and the run returns task.outputFile
\* modification time of a file (one the run does not follow is as old as can be)
TimeOf(f, times) == IF f \in DOMAIN times THEN times[f] ELSE 0

\* the listing unsorted: any file of the expected extension
FirstListed(matched, times) == matched

\* fileStats.sort((a, b) => b.mtime - a.mtime)[0]: a file no other is newer
\* than (of files of one time, the first of the listing: any of them)
Newest(matched, times) ==
  {f \in matched : \A g \in matched : TimeOf(g, times) <= TimeOf(f, times)}

FinalizeReaddir ==
  /\ fin.pc = "readdir"
  /\ LET matchedFiles ==
           {f \in files : DirName(f) = fin.directory /\ EndsWith(f, ExpectedExt(fin.audio))}
     IN  \/ \E f \in Newest(matchedFiles, mtime) :
               fin' = Found(fin, Join(fin.directory, BaseName(f, <<>>)))
         \/ /\ matchedFiles = {}
            /\ fin' = Returned(fin, FALSE)
         \/ fin' = Returned([fin EXCEPT !.threw = TRUE], FALSE)
  /\ UNCHANGED <<files, mtime, resolved, deleting, call, downloads, maxConcurrentDownloads,
                 downloadDir, settingsWrites, inflight, pendingQueue, activeDownloads,
                 isProcessingQueue, forceQuit, drainTask, drainMax, dialogOpen, nEnq, phase,
                 taskId, status, events, enriching, errored, signaled, rejections, limitSets,
                 startsLeft, linesLeft, limitChangesLeft, rejectsLeft, dirChangesLeft>>

\* ensureFinalFilePath without the comparison with currentPath
FinalizeTargetBlind ==
  /\ fin.pc = "target"
  /\ LET ext == IF ExtName(fin.actualFile) # <<>> THEN ExtName(fin.actualFile)
                ELSE ExpectedExt(fin.audio)
         candidatePath ==
           Join(fin.directory, CandidateName(sanitizeFilename(fin.title), fin.attempt, ext))
     IN  fin' = IF candidatePath \in files THEN [fin EXCEPT !.attempt = @ + 1]
                ELSE [fin EXCEPT !.pc = "rename"]
  /\ UNCHANGED <<files, mtime, resolved, deleting, call, downloads, maxConcurrentDownloads,
                 downloadDir, settingsWrites, inflight, pendingQueue, activeDownloads,
                 isProcessingQueue, forceQuit, drainTask, drainMax, dialogOpen, nEnq, phase,
                 taskId, status, events, enriching, errored, signaled, rejections, limitSets,
                 startsLeft, linesLeft, limitChangesLeft, rejectsLeft, dirChangesLeft>>

\* one turn of ensureFinalFilePath's loop and, when it returns the current
\* path, the rest of finalizeDownload: no rename, task.outputFile returned
FinalizeTarget ==
  /\ fin.pc = "target"
  /\ LET ext == IF ExtName(fin.actualFile) # <<>> THEN ExtName(fin.actualFile)
                ELSE ExpectedExt(fin.audio)
         candidatePath ==
           Join(fin.directory, CandidateName(sanitizeFilename(fin.title), fin.attempt, ext))
     IN  fin' = IF candidatePath = fin.actualFile THEN Returned(fin, TRUE)
                ELSE IF candidatePath \in files THEN [fin EXCEPT !.attempt = @ + 1]
                ELSE [fin EXCEPT !.pc = "rename"]
  /\ UNCHANGED <<files, mtime, resolved, deleting, call, downloads, maxConcurrentDownloads,
                 downloadDir, settingsWrites, inflight, pendingQueue, activeDownloads,
                 isProcessingQueue, forceQuit, drainTask, drainMax, dialogOpen, nEnq, phase,
                 taskId, status, events, enriching, errored, signaled, rejections, limitSets,
                 startsLeft, linesLeft, limitChangesLeft, rejectsLeft, dirChangesLeft>>

\* the stat of ensureFinalFilePath (there is none for the current path) or
\* the rename throws: the catch returns task.outputFile
FinalizeThrow ==
  /\ fin.pc \in {"target", "rename"}
  /\ LET ext == IF ExtName(fin.actualFile) # <<>> THEN ExtName(fin.actualFile)
                ELSE ExpectedExt(fin.audio)
     IN  fin.pc = "target" =>
           Join(fin.directory, CandidateName(sanitizeFilename(fin.title), fin.attempt, ext))
             # fin.actualFile
  /\ fin' = Returned([fin EXCEPT !.threw = TRUE], FALSE)
  /\ UNCHANGED <<files, mtime, resolved, deleting, call, downloads, maxConcurrentDownloads,
                 downloadDir, settingsWrites, inflight, pendingQueue, activeDownloads,
                 isProcessingQueue, forceQuit, drainTask, drainMax, dialogOpen, nEnq, phase,
                 taskId, status, events, enriching, errored, signaled, rejections, limitSets,
                 startsLeft, linesLeft, limitChangesLeft, rejectsLeft, dirChangesLeft>>

\* rename(actualFile, targetPath)
\* the close handler once finalizeDownload has returned, for the task of
\* request n: pathToCheck = finalPath ?? task.outputFile, the stat for the
\* file size in its try (it gives a size only for a file that is there, and
\* may throw for that one too), the completed event with filePath and
\* fileSize, then processQueue
CloseReport(n) ==
  /\ phase[n] = "finalizing"
  /\ fin.pc = "done"
  /\ LET pathToCheck == IF fin.last # <<>> THEN fin.last ELSE fin.outputFile
     IN  \E sized \in BOOLEAN :
           /\ sized => pathToCheck # <<>> /\ pathToCheck \in files
           /\ fin' = [fin EXCEPT !.pc = "reported", !.filePath = pathToCheck, !.sized = sized]
  /\ Completed(n)
  /\ UNCHANGED <<files, mtime, resolved, deleting, call, downloads, maxConcurrentDownloads,
                 downloadDir, settingsWrites, inflight, activeDownloads, forceQuit,
                 dialogOpen, nEnq, taskId, status, enriching, errored, signaled, rejections,
                 limitSets, startsLeft, linesLeft, limitChangesLeft, rejectsLeft,
                 dirChangesLeft>>
FinalizeRename ==
  /\ fin.pc = "rename"
  /\ fin.actualFile \in files
  /\ LET ext == IF ExtName(fin.actualFile) # <<>> THEN ExtName(fin.actualFile)
                ELSE ExpectedExt(fin.audio)
         targetPath ==
           Join(fin.directory, CandidateName(sanitizeFilename(fin.title), fin.attempt, ext))
     IN  /\ files' = (files \ {fin.actualFile}) \cup {targetPath}
         /\ mtime' = [f \in DOMAIN mtime \cup {targetPath} |->
                        IF f = targetPath THEN TimeOf(fin.actualFile, mtime) ELSE mtime[f]]
         /\ fin' = Returned([fin EXCEPT !.outputFile = targetPath, !.renamed = TRUE], FALSE)
  /\ UNCHANGED <<resolved, deleting, call, downloads, maxConcurrentDownloads, downloadDir,
                 settingsWrites, inflight, pendingQueue, activeDownloads, isProcessingQueue,
                 forceQuit, drainTask, drainMax, dialogOpen, nEnq, phase, taskId, status,
                 events, enriching, errored, signaled, rejections, limitSets, startsLeft,
                 linesLeft, limitChangesLeft, rejectsLeft, dirChangesLeft>>

\* ---------------------------------------------------------------- settings

\* settings:set-max-concurrent-downloads up to the writeFile of
\* persistSettings: the cache already holds the clamped value
SetMaxConcurrent(count) ==
  /\ limitChangesLeft > 0
  /\ limitChangesLeft' = limitChangesLeft - 1
  /\ maxConcurrentDownloads' = clampConcurrentDownloads(count)
  /\ settingsWrites' = settingsWrites + 1
  /\ limitSets' = limitSets + 1
  /\ UNCHANGED <<files, mtime, resolved, deleting, call, fin, downloads, downloadDir,
                 inflight, pendingQueue, activeDownloads, isProcessingQueue, forceQuit,
                 drainTask, drainMax, dialogOpen, nEnq, phase, taskId, status, events,
                 enriching, errored, signaled, rejections, startsLeft, linesLeft,
                 rejectsLeft, dirChangesLeft>>

\* the write is done: the handler calls processQueue
SettingsWritten ==
  /\ settingsWrites > 0
  /\ settingsWrites' = settingsWrites - 1
  /\ LET d == processQueue(pendingQueue, activeDownloads, isProcessingQueue,
                           forceQuit, maxConcurrentDownloads, drainMax)
     IN  /\ ApplyDrain(d)
         /\ phase' = DrainPhase(phase, d)
  /\ UNCHANGED <<files, mtime, resolved, deleting, call, fin, downloads,
                 maxConcurrentDownloads, downloadDir, inflight, activeDownloads, forceQuit,
                 dialogOpen, nEnq, taskId, status, events, enriching, errored, signaled,
                 rejections, limitSets, startsLeft, linesLeft, limitChangesLeft, rejectsLeft,
                 dirChangesLeft>>

\* the write fails: the handler rejects before it reaches processQueue
SettingsWriteFail ==
  /\ settingsWrites > 0
  /\ settingsWrites' = settingsWrites - 1
  /\ UNCHANGED <<files, mtime, resolved, deleting, call, fin, downloads,
                 maxConcurrentDownloads, downloadDir, inflight, pendingQueue,
                 activeDownloads, isProcessingQueue, forceQuit, drainTask, drainMax,
                 dialogOpen, nEnq, phase, taskId, status, events, enriching, errored,
                 signaled, rejections, limitSets, startsLeft, linesLeft, limitChangesLeft,
                 rejectsLeft, dirChangesLeft>>

\* settings:set-download-dir / settings:choose-download-dir
SetDownloadDir(dir) ==
  /\ dirChangesLeft > 0
  /\ dirChangesLeft' = dirChangesLeft - 1
  /\ downloadDir' = dir
  /\ UNCHANGED <<files, mtime, resolved, deleting, call, fin, downloads,
                 maxConcurrentDownloads, settingsWrites, inflight, pendingQueue,
                 activeDownloads, isProcessingQueue, forceQuit, drainTask, drainMax,
                 dialogOpen, nEnq, phase, taskId, status, events, enriching, errored,
                 signaled, rejections, limitSets, startsLeft, linesLeft, limitChangesLeft,
                 rejectsLeft>>

\* ------------------------------------------------------------- before-quit

\* before-quit with something pending or active: the confirmation dialog
BeforeQuit ==
  /\ ~forceQuit
  /\ ~dialogOpen
  /\ Len(pendingQueue) > 0 \/ ActiveSize(activeDownloads) > 0
  /\ dialogOpen' = TRUE
  /\ UNCHANGED <<files, mtime, resolved, deleting, call, fin, downloads,
                 maxConcurrentDownloads, downloadDir, settingsWrites, inflight, pendingQueue,
                 activeDownloads, isProcessingQueue, forceQuit, drainTask, drainMax, nEnq,
                 phase, taskId, status, events, enriching, errored, signaled, rejections,
                 limitSets, startsLeft, linesLeft, limitChangesLeft, rejectsLeft,
                 dirChangesLeft>>

\* the user keeps the app open
QuitCancel ==
  /\ dialogOpen
  /\ dialogOpen' = FALSE
  /\ UNCHANGED <<files, mtime, resolved, deleting, call, fin, downloads,
                 maxConcurrentDownloads, downloadDir, settingsWrites, inflight, pendingQueue,
                 activeDownloads, isProcessingQueue, forceQuit, drainTask, drainMax, nEnq,
                 phase, taskId, status, events, enriching, errored, signaled, rejections,
                 limitSets, startsLeft, linesLeft, limitChangesLeft, rejectsLeft,
                 dirChangesLeft>>

\* a shutdown that empties the queue without a word
cleanupQueueSilently ==
  LET live == Registered(activeDownloads)
  IN  /\ signaled' = signaled \cup live
      /\ status' = [n \in Reqs |-> IF n \in live THEN "failed" ELSE status[n]]
      /\ events' = [n \in Reqs |->
           IF n \in live THEN Append(events[n], FailedEvent("cancel")) ELSE events[n]]
      /\ activeDownloads' = [i \in Reqs |-> NoReq]
      /\ pendingQueue' = <<>>
      /\ phase' = [n \in Reqs |->
           IF n \in InQueue(pendingQueue) THEN "cancelled" ELSE phase[n]]

\* cleanupPendingTasks: SIGINT and handleFailure for every registry entry,
\* clear the registry, a failed event for every pending entry
cleanupPendingTasks ==
  LET live == Registered(activeDownloads)
      waiting == InQueue(pendingQueue)
  IN  /\ signaled' = signaled \cup live
      /\ status' = [n \in Reqs |-> IF n \in live THEN "failed" ELSE status[n]]
      /\ events' = [n \in Reqs |->
           IF n \in live \cup waiting THEN Append(events[n], FailedEvent("cancel"))
           ELSE events[n]]
      /\ activeDownloads' = [i \in Reqs |-> NoReq]
      /\ pendingQueue' = <<>>
      /\ phase' = [n \in Reqs |-> IF n \in waiting THEN "cancelled" ELSE phase[n]]

\* the user confirms: forceQuit, cleanupPendingTasks, app.quit()
QuitConfirm ==
  /\ dialogOpen
  /\ dialogOpen' = FALSE
  /\ forceQuit' = TRUE
  /\ cleanupPendingTasks
  /\ UNCHANGED <<files, mtime, resolved, deleting, call, fin, downloads,
                 maxConcurrentDownloads, downloadDir, settingsWrites, inflight,
                 isProcessingQueue, drainTask, drainMax, nEnq, taskId, enriching, errored,
                 rejections, limitSets, startsLeft, linesLeft, limitChangesLeft, rejectsLeft,
                 dirChangesLeft>>

\* ------------------------------------------------------------------- Next

\* what the queue does: requests, admissions, exits, shutdown
QueueStep ==
  \/ \E url \in Urls, oid \in OverrideIds : DownloadStart(url, oid)
  \/ \E oid \in 0..MaxStarts : StartIoFail(oid)
  \/ \E oid \in 0..MaxStarts : StartEnqueue(oid)
  \/ \E n \in Reqs, piped \in StdioPiped : SpawnOk(n, piped)
  \/ \E n \in Reqs : SpawnError(n)
  \/ \E n \in Reqs, code \in ExitCodes : Close(n, code)
  \/ \E n \in Reqs : CloseFinish(n)
  \/ BeforeQuit
  \/ QuitCancel
  \/ QuitConfirm

\* the settings handlers
SettingsStep ==
  \/ \E count \in LimitInputs : SetMaxConcurrent(count)
  \/ SettingsWritten
  \/ SettingsWriteFail
  \/ \E dir \in {NoDir, Dir} : SetDownloadDir(dir)

\* what a running process and its metadata fetch do
OutputStep ==
  \/ \E n \in Reqs, line \in Lines : HandleLine(n, line)
  \/ \E n \in Reqs : ChildError(n)
  \/ \E n \in Reqs, found \in BOOLEAN : EnrichMetadata(n, found)

Next == QueueStep \/ SettingsStep

NextTask == QueueStep \/ OutputStep

\* the queue with silent processes
Spec == Init /\ [][Next]_vars

\* the settings handlers with any count
NextSettings ==
  \/ \E count \in ClampInputs : SetMaxConcurrent(count)
  \/ SettingsWritten
  \/ SettingsWriteFail
  \/ \E dir \in {NoDir, Dir} : SetDownloadDir(dir)

\* the settings alone
SettingsSpec == InitSettings /\ [][NextSettings]_vars

\* sanitizeFilename on every title
NextName == \E title \in Titles : SanitizeFilenameCall(title)

NameSpec == InitFile /\ [][NextName]_vars

\* ensureUniqueOutputPath and the directory
NextFile ==
  \/ \E title \in UniqueTitles, overwrite \in BOOLEAN : EnsureUniqueBegin(title, overwrite)
  \/ EnsureUniqueStat
  \/ EnsureUniqueThrow
  \/ \E name \in Names : FileAppears(name)
  \/ \E name \in Names : FileVanishes(name)

FileSpec == InitFile /\ [][NextFile]_vars

\* finalizeDownload of one task and the directory
NextFinal ==
  \/ \E outputFile \in OutputFiles, audio \in BOOLEAN :
        FinalizeBegin(outputFile, Clip, audio, "mp3")
  \/ FinalizeAgain
  \/ FinalizeStatOutput
  \/ FinalizeStatExpected
  \/ FinalizeReaddir
  \/ FinalizeTarget
  \/ FinalizeThrow
  \/ FinalizeRename
  \/ CloseReport(1)
  \/ \E name \in FinalNames : FileAppears(name)
  \/ \E name \in FinalNames : FileVanishes(name)

FinalSpec == InitFinal /\ [][NextFinal]_vars

\* the paths of one task from download:start to finalizeDownload, the
\* directory and the setting changing meanwhile
NextPath ==
  \/ \E title \in PathTitles, audio \in BOOLEAN, force \in BOOLEAN,
        existingFilePath \in ExistingPaths, attempt \in 0..MaxSuffix :
        ResolveFinalPath(title, audio, force, existingFilePath, attempt)
  \/ \E ext \in {Mp4, Webm} : HandleDestination(ext)
  \/ FinalizeAgain
  \/ FinalizeStatOutput
  \/ FinalizeStatExpected
  \/ FinalizeReaddir
  \/ FinalizeTarget
  \/ FinalizeThrow
  \/ FinalizeRename
  \/ \E name \in PathNames : FileAppears(name)
  \/ \E name \in PathNames : FileVanishes(name)
  \/ \E dir \in {Dir, OtherDir} : SetDownloadDir(dir)

PathSpec == InitPath /\ [][NextPath]_vars

\* files of earlier downloads: the two first names of the title clip
PairNames ==
  {Join(DirPath(Dir), CandidateName(Clip, k, Mp4)) : k \in 0..1}

\* What a run of requests with their paths starts from.
PairBudgets ==
  { [starts |-> MaxPairStarts, lines |-> 0, limitChanges |-> 0, rejects |-> 0,
     dirChanges |-> 0, limits |-> {DefaultMaxConcurrent}, dirs |-> {Dir}, mtimes |-> {NoTimes}] }

InitPair == \E b \in PairBudgets : InitWith(b)

\* requests that do not overwrite, with their resolved paths, in one
\* directory in which files of those names come and go
NextPair ==
  \/ \E url \in Urls : DownloadStart(url, NoId)
  \/ \E title \in UniqueTitles : StartEnqueuePath(NoId, title)
  \/ \E n \in Reqs : SpawnOk(n, TRUE)
  \/ \E n \in Reqs, code \in ExitCodes : Close(n, code)
  \/ \E n \in Reqs : CloseFinish(n)
  \/ \E name \in PairNames : FileAppears(name)
  \/ \E name \in PairNames : FileVanishes(name)

PairSpec == InitPair /\ [][NextPair]_vars

\* What a run of requests that are deleted starts from: a limit of one.
DeleteBudgets ==
  { [starts |-> MaxPairStarts, lines |-> 0, limitChanges |-> 0, rejects |-> 0,
     dirChanges |-> 0, limits |-> {MinConcurrent}, dirs |-> {Dir}, mtimes |-> {NoTimes}] }

InitDelete == \E b \in DeleteBudgets : InitWith(b)

\* requests of one title under a limit of one, whose items are deleted at
\* any moment, with or without a file path; a file of the resolved name may
\* be there
NextDelete ==
  \/ \E url \in Urls : DownloadStart(url, NoId)
  \/ StartEnqueuePath(NoId, Clip)
  \/ \E n \in Reqs : SpawnOk(n, TRUE)
  \/ \E n \in Reqs : Close(n, 0)
  \/ \E n \in Reqs : CloseFinish(n)
  \/ FileAppears(Join(DirPath(Dir), CandidateName(Clip, 0, Mp4)))
  \/ \E n \in Reqs : \E filePath \in {<<>>, resolved[n]} : DownloadDelete(n, filePath)
  \/ \E n \in Reqs : DeleteRemoved(n)

DeleteSpec == InitDelete /\ [][NextDelete]_vars

\* the files of an audio download: what yt-dlp leaves for either container,
\* and an .mp3 file of another title
FormatNames ==
  {Join(DirPath(Dir), name) : name \in {VideoId \o M4a, VideoId \o Mp3, Clip \o Mp3}}

\* task.outputFile of an audio task when its process has closed: the file
\* of the container, or the stream it was extracted from
FormatOutputs ==
  {Join(DirPath(Dir), name) : name \in {VideoId \o M4a, VideoId \o Mp3, VideoId \o Webm}}

\* finalizeDownload of one audio task, of either audioFormat
NextFormat ==
  \/ \E outputFile \in FormatOutputs, audioFormat \in {"mp3", "m4a"} :
        FinalizeBegin(outputFile, Clip, TRUE, audioFormat)
  \/ FinalizeStatOutput
  \/ FinalizeStatExpected
  \/ FinalizeReaddir
  \/ FinalizeTarget
  \/ FinalizeThrow
  \/ FinalizeRename
  \/ CloseReport(1)
  \/ \E name \in FormatNames : FileAppears(name)
  \/ \E name \in FormatNames : FileVanishes(name)

FormatSpec == InitFinal /\ [][NextFormat]_vars

\* the store's handler of download:event, for the events of one id
NextStore ==
  \/ OnQueued
  \/ \E payload \in ProgressPayloads : OnProgress(payload)
  \/ \E filePath \in {Undefined, "f"} : OnCompleted(filePath)
  \/ OnFailed
  \/ OnRemoved

StoreSpec == InitFile /\ [][NextStore]_vars

\* one download with its output
TaskSpec == InitTask /\ [][NextTask]_vars

\* what the outside owes the queue: an exec() ends in 'spawn' or 'error', a
\* spawned process exits, a finalizeDownload returns
Outside ==
  \E n \in Reqs :
    \/ SpawnOk(n, TRUE)
    \/ SpawnError(n)
    \/ \E code \in ExitCodes : Close(n, code)
    \/ CloseFinish(n)

\* as long as the outside owes a step, one of them comes
Fairness == WF_vars(Outside)

FairSpec == Spec /\ Fairness

\* ----------------------------------------------------------------- claims

\* requests whose process has been spawned and has not exited
Live == {n \in Reqs : phase[n] \in {"running", "deaf"}}

\* C1: at a fixed limit (no set-max-concurrent-downloads call), whatever the
\* download:start calls (retries that reuse an id included) and the exits,
\* the processes spawned and not yet exited are never more than
\* maxConcurrentDownloads.
C1_LiveWithinFixedLimit ==
  limitSets = 0 => Cardinality(Live) <= maxConcurrentDownloads

\* phases of an entry whose process has been spawned (exec has run), and of
\* an entry that has been admitted or reported failed at spawn
Spawned == {"spawning", "spawnfailed", "running", "deaf", "finalizing", "closed"}
Settled == {"spawnfailed", "running", "deaf", "finalizing", "closed"}

\* C2: at every instant, also after the limit has been lowered while tasks
\* run, the tasks with a live process are at most maxConcurrentDownloads.
C2_LiveWithinCurrentLimit ==
  Cardinality(Live) <= maxConcurrentDownloads

\* C3: entries are admitted in the order of their push: when B was pushed
\* after A and B's process has been spawned, A has been admitted or has
\* been reported failed at spawn.
C3_FifoAdmission ==
  \A a \in 1..nEnq, b \in 1..nEnq :
    a < b /\ phase[b] \in Spawned => phase[a] \in Settled

\* the second entry is being spawned after the first has exited, the third waits
C3_Witness ==
  /\ phase[1] = "closed"
  /\ phase[2] = "spawning"
  /\ pendingQueue = <<3>>

Range(seq) == {seq[i] : i \in DOMAIN seq}
Terminal(e) == e.type \in {"completed", "failed"}

\* C4: for every task a terminal event (completed or failed) is the last
\* event: there is no second terminal event and no progress event after it,
\* whatever lines, child errors and exit code the process produces.
C4_TerminalEventIsLast ==
  \A n \in Reqs : \A i \in 1..(Len(events[n]) - 1) : ~Terminal(events[n][i])

\* C5: a task that got an ERROR line and whose process then exited with
\* code 0 is failed and has no completed event.
C5_ErrorLineThenExitZeroIsFailed ==
  \A n \in Reqs :
    FailedEvent("line") \in Range(events[n]) /\ phase[n] \in {"finalizing", "closed"}
      => status[n] = "failed" /\ CompletedEvent \notin Range(events[n])

\* the events a step adds for request n
NewEvents(n) == SubSeq(events'[n], Len(events[n]) + 1, Len(events'[n]))

\* entries that wait: in the pending queue, or for the outcome of their spawn
Waiting == {n \in Reqs : phase[n] \in {"pending", "spawning"}}

\* C6: without shutdown, when every spawned process exits, every entry of
\* the pending queue is in the end admitted (registered, its process live)
\* or reported by a failed event: whenever entries wait, a moment comes at
\* which none waits, and an entry stops waiting only by being admitted or
\* by the failed event of its spawn.
C6_PendingIsAdmittedOrFails ==
  /\ (Waiting # {}) ~> (Waiting = {} \/ forceQuit)
  /\ [][\A n \in Waiting :
          \/ phase'[n] \in {"pending", "spawning"}
          \/ phase'[n] \in {"running", "deaf"} /\ activeDownloads'[taskId[n]] = n
          \/ phase'[n] = "spawnfailed" /\ NewEvents(n) = <<FailedEvent("spawn")>>
          \/ forceQuit']_vars

\* an entry that waited at capacity behind another waiting entry runs
C6_Witness ==
  /\ ~forceQuit
  /\ phase[1] = "closed"
  /\ phase[2] = "closed"
  /\ phase[3] = "running"
  /\ maxConcurrentDownloads = MinConcurrent
  /\ limitSets = 0
  /\ \A n \in Reqs : taskId[n] = n

\* C7: the forced shutdown, with a live tasks and p pending entries, emits
\* one failed event with the cancellation message for each of them and for
\* nothing else, signals every live process, and leaves the pending queue
\* and the registry empty.
C7_ForcedShutdown ==
  [][~forceQuit /\ forceQuit' =>
       /\ \A n \in Reqs :
            NewEvents(n) = IF n \in Live \cup InQueue(pendingQueue)
                             THEN <<FailedEvent("cancel")>> ELSE <<>>
       /\ Live \subseteq signaled'
       /\ pendingQueue' = <<>>
       /\ ActiveSize(activeDownloads') = 0]_vars

\* nothing is between two steps of a handler, the limit was never set, no
\* shutdown, and every request has an id of its own and either waits, runs
\* or has exited
Quiet ==
  /\ ~isProcessingQueue
  /\ ~forceQuit
  /\ limitSets = 0
  /\ \A n \in 1..nEnq : taskId[n] = n /\ phase[n] \in {"pending", "running", "closed"}

Exited == {n \in 1..nEnq : phase[n] = "closed"}

\* C8: with N requests at a fixed limit M, once the handlers are done, the
\* first min(N, M + k) entries have been admitted, k of them having exited,
\* and the others wait in the order of their push: M are admitted and N - M
\* wait when none has exited, and one exit admits exactly the oldest waiting
\* entry.
C8_AdmitsUpToLimit ==
  Quiet =>
    LET N == nEnq
        taken == Min2(N, maxConcurrentDownloads + Cardinality(Exited))
    IN  /\ \A n \in 1..N : phase[n] \in {"running", "closed"} <=> n <= taken
        /\ pendingQueue = [i \in 1..(N - taken) |-> taken + i]

\* three requests at limit 1: the first has exited, the second runs, the third waits
C8_Witness ==
  /\ Quiet
  /\ maxConcurrentDownloads = MinConcurrent
  /\ phase[1] = "closed"
  /\ phase[2] = "running"
  /\ phase[3] = "pending"

\* a URL of white space only, or empty
Blank(url) == \A i \in 1..Len(url) : url[i] = " "

\* C9: download:start with an empty or white-space URL, or without a
\* download directory, rejects, creates no task, leaves the pending queue
\* and the registry as they are and emits no event.
C9_RejectedStartChangesNothing ==
  [][\A url \in Urls, oid \in 0..MaxStarts :
       DownloadStart(url, oid) /\ (Blank(url) \/ downloadDir = NoDir) =>
         /\ rejections' = rejections + 1
         /\ UNCHANGED <<inflight, pendingQueue, activeDownloads, nEnq, phase, taskId,
                         status, events>>]_vars

\* a call was rejected while one task runs and another waits
C9_Witness ==
  /\ rejections > 0
  /\ Len(pendingQueue) > 0
  /\ ActiveSize(activeDownloads) > 0

\* C10: when the spawn of a dequeued entry fails, the entry has exactly one
\* failed event, it never gets a task or a registry entry, and the same run
\* of processQueue takes the next pending entry while capacity remains.
C10_SpawnFailure ==
  [][\A n \in Reqs :
       /\ phase'[n] = "spawnfailed" =>
            /\ events'[n] = <<QueuedEvent, FailedEvent("spawn")>>
            /\ status'[n] = "none"
            /\ n \notin Registered(activeDownloads')
       /\ phase[n] = "spawning" /\ phase'[n] = "spawnfailed" /\ ~forceQuit
            /\ Len(pendingQueue) > 0
            /\ ActiveSize(activeDownloads) < maxConcurrentDownloads =>
              /\ phase'[Head(pendingQueue)] = "spawning"
              /\ pendingQueue' = Tail(pendingQueue)
              /\ isProcessingQueue']_vars

\* the first spawn failed and the second entry is being spawned by the same run
C10_Witness ==
  /\ phase[1] = "spawnfailed"
  /\ phase[2] = "spawning"
  /\ isProcessingQueue

\* the integer nearest to t tenths, the upper one of two equally near
Nearest(t) == CHOOSE r \in (0 - MaxCount - 1)..(MaxCount + 1) : 10 * r - 5 <= t /\ t < 10 * r + 5

\* C11: clampConcurrentDownloads gives an integer in [1,10] for every input
\* (3 for an input that is not finite, otherwise the rounded value brought
\* into the range), clamping a clamped value changes nothing, and the
\* maxConcurrentDownloads the settings hold is always in [1,10].
C11_ClampedLimit ==
  /\ [](/\ maxConcurrentDownloads \in 1..10
        /\ getMaxConcurrentDownloads(maxConcurrentDownloads) = maxConcurrentDownloads)
  /\ [][\A count \in ClampInputs :
          SetMaxConcurrent(count) =>
            maxConcurrentDownloads' =
              IF count = NaN THEN 3
              ELSE IF Nearest(count) < 1 THEN 1
              ELSE IF Nearest(count) > 10 THEN 10
              ELSE Nearest(count)]_vars

\* the settings hold 10 after a set call whose write is still under way
C11_Witness ==
  /\ maxConcurrentDownloads = 10
  /\ limitSets > 0
  /\ settingsWrites > 0

\* C12: after the limit is raised while entries wait, a drain runs and the
\* entries are admitted until the registry reaches the new limit or the
\* queue is empty, with no exit of a running task needed: once the
\* handlers are done (no settings write under way, no drain in its loop, no
\* close handler in finalizeDownload), no entry waits below the limit.
C12_RaisedLimitIsUsed ==
  /\ settingsWrites = 0
  /\ ~isProcessingQueue
  /\ ~forceQuit
  /\ \A n \in Reqs : phase[n] # "finalizing"
  => \/ Len(pendingQueue) = 0
     \/ ActiveSize(activeDownloads) >= maxConcurrentDownloads

\* C13: without overwrite ensureUniqueOutputPath returns base(k) for the
\* smallest k >= 0 (base(0) the bare base name) whose path does not exist,
\* the directory staying as it is during the call: with clip.mp4 there,
\* title clip gives clip(1).mp4, and with clip(1).mp4 there too, clip(2).mp4.
C13_SmallestFreeName ==
  [][/\ call.fn = "ensureUniqueOutputPath" /\ ~call.done
     /\ call'.done /\ call'.still /\ call'.result # Threw
     => LET base == sanitizeFilename(call.title)
            clip1 == <<"c", "l", "i", "p", "(", "1", ")", ".", "m", "p", "4">>
            clip2 == <<"c", "l", "i", "p", "(", "2", ")", ".", "m", "p", "4">>
        IN  /\ \E k \in 0..(MaxSuffix + 1) :
                 /\ call'.result = base \o (IF k = 0 THEN <<>> ELSE <<"(">> \o Decimal(k) \o <<")">>) \o Mp4
                 /\ call'.result \notin files
                 /\ \A j \in 0..(k - 1) : CandidateName(base, j, Mp4) \in files
            /\ call.title = Clip /\ Clip \o Mp4 \in files /\ clip1 \notin files
                 => call'.result = clip1
            /\ call.title = Clip /\ Clip \o Mp4 \in files /\ clip1 \in files
                 /\ clip2 \notin files => call'.result = clip2]_vars

\* clip.mp4 and clip(1).mp4 are there and the call for clip has returned clip(2).mp4
C13_Witness ==
  /\ call.fn = "ensureUniqueOutputPath" /\ call.done /\ call.still /\ ~call.overwrite
  /\ call.title = Clip
  /\ {CandidateName(Clip, 0, Mp4), CandidateName(Clip, 1, Mp4)} \subseteq files
  /\ call.result = CandidateName(Clip, 2, Mp4)

\* C14: the title A:B/C*D? is sanitized to A_B_C_D
C14_IllegalReplaced ==
  /\ call.fn = "sanitizeFilename" /\ call.done
  /\ call.title = <<"A", ":", "B", "/", "C", "*", "D", "?">>
  => call.result = <<"A", "_", "B", "_", "C", "_", "D">>

\* C15: a title made only of illegal characters is sanitized to video
C15_AllIllegalIsVideo ==
  /\ call.fn = "sanitizeFilename" /\ call.done
  /\ call.title # <<>>
  /\ \A i \in 1..Len(call.title) : call.title[i] \in Illegal
  => call.result = Video

\* the name ensureFinalFilePath resolves for a file of a directory: the
\* first of title.ext, title(1).ext, ... that is the file itself or is free
ResolvedTarget(dir, title, file) ==
  LET ext == IF ExtName(file) # <<>> THEN ExtName(file) ELSE Mp4
      name(k) == <<"d", "/">> \o sanitizeFilename(title) \o
                   (IF k = 0 THEN <<>> ELSE <<"(">> \o Decimal(k) \o <<")">>) \o ext
      first == CHOOSE k \in 0..Cardinality(dir) :
                 /\ name(k) = file \/ name(k) \notin dir
                 /\ \A j \in 0..(k - 1) : name(j) # file /\ name(j) \in dir
  IN  name(first)

\* C16: a finalization whose actual file already has the name of its resolved
\* target renames nothing and returns the path of that file, and a second
\* finalization of the task renames nothing either and returns the same path
\* (the directory being left alone by everything else meanwhile).
C16_FinalizeIsNoOp ==
  [][/\ fin.pc # "done" /\ fin'.pc = "done" /\ fin'.still
     => /\ /\ fin'.actualFile # <<>>
           /\ fin'.actualFile \in files
           /\ ResolvedTarget(files, fin.title, fin'.actualFile) = fin'.actualFile
           => /\ ~fin'.renamed
              /\ files' = files
              /\ fin'.last = fin'.actualFile
        /\ fin.runs >= 1 /\ fin.kept
           => /\ ~fin'.renamed
              /\ files' = files
              /\ fin'.last = fin.last]_vars

\* a second finalization has ended after a first that found clip(1).mp4,
\* clip.mp4 being there too, and kept it
C16_Witness ==
  /\ fin.pc = "done" /\ fin.runs = 2 /\ fin.still /\ fin.kept
  /\ fin.last = <<"d", "/">> \o CandidateName(Clip, 1, Mp4)
  /\ <<"d", "/">> \o CandidateName(Clip, 0, Mp4) \in files

\* C17: of two successive events of a task that both carry the status
\* downloading, the later one's percent is not below the earlier one's.
C17_PercentNonDecreasing ==
  \A n \in Reqs : \A i \in 1..(Len(events[n]) - 1) :
    /\ events[n][i].status = "downloading"
    /\ events[n][i + 1].status = "downloading"
    => events[n][i].percent <= events[n][i + 1].percent

\* a path of a directory: the directory, a separator, a name without one
Inside(p, directory) ==
  /\ Len(p) > Len(directory) + 1
  /\ SubSeq(p, 1, Len(directory) + 1) = directory \o <<"/">>
  /\ \A i \in (Len(directory) + 2)..Len(p) : p[i] # "/"

\* C18: whenever a task has an output file path, the path is a file of
\* the task's download directory or is the existing-file path its forced
\* start named.
C18_OutputInsideDirectory ==
  fin.pc # "idle" /\ fin.outputFile # <<>>
  => \/ Inside(fin.outputFile, fin.directory)
     \/ fin.existing # <<>> /\ fin.outputFile = fin.existing

\* the setting was changed after the start, the title asked to leave the
\* directory, and finalizeDownload has renamed the file
C18_Witness ==
  /\ fin.pc = "done" /\ fin.renamed
  /\ DirPath(downloadDir) # fin.directory
  /\ fin.title = <<".", ".", "_", "x">>
  /\ Inside(fin.outputFile, fin.directory)

\* C19: a progress event leaves every field it does not carry as the
\* item had it; without a status the item's status stays.
C19_ProgressIsPartialUpdate ==
  [][\A payload \in ProgressPayloads :
       OnProgress(payload) =>
         /\ payload.status = Undefined => downloads'[1].status = downloads[1].status
         /\ payload.title = Undefined => downloads'[1].title = downloads[1].title
         /\ payload.filePath = Undefined => downloads'[1].filePath = downloads[1].filePath
         /\ payload.percent = Undefined => downloads'[1].percent = downloads[1].percent
         /\ payload.speed = Undefined => downloads'[1].speed = downloads[1].speed
         /\ payload.eta = Undefined => downloads'[1].eta = downloads[1].eta]_vars

\* C20: an entry leaves the pending queue only into startPendingTask or
\* with the failed event of the shutdown; startPendingTask never returns
\* without a word, and lets go of the entry only by registering it as a live
\* task or by throwing, which processQueue reports with a failed event.
\* This holds with the forced shutdown anywhere between these steps.
C20_NoEntryDropped ==
  /\ [](\A n \in Reqs : phase[n] # "dropped")
  /\ [][\A n \in Reqs :
          /\ n \in InQueue(pendingQueue) /\ n \notin InQueue(pendingQueue')
               => \/ phase'[n] = "spawning" /\ NewEvents(n) = <<>>
                  \/ NewEvents(n) = <<FailedEvent("cancel")>>
          /\ phase[n] = "spawning" /\ phase'[n] # "spawning"
               => \/ activeDownloads'[taskId[n]] = n
                  \/ NewEvents(n) = <<FailedEvent("spawn")>>]_vars

\* the shutdown came while the first entry's spawn was awaited and the
\* second waited: the second was failed, the first registered afterwards
C20_Witness ==
  /\ forceQuit
  /\ phase[1] = "running" /\ activeDownloads[taskId[1]] = 1
  /\ phase[2] = "cancelled"
  /\ events[2] = <<QueuedEvent, FailedEvent("cancel")>>

\* C21: an entry goes from the pending queue to its spawn only in a pass
\* whose limit is the setting as it is at that pass, and only with fewer
\* live tasks than that: a limit changed while the drain awaits a spawn
\* decides about the next entry.
C21_AdmissionUsesCurrentLimit ==
  [][\A n \in Reqs :
       phase[n] = "pending" /\ phase'[n] = "spawning"
       => /\ drainMax' = maxConcurrentDownloads
          /\ maxConcurrentDownloads' = maxConcurrentDownloads
          /\ ActiveSize(activeDownloads') < maxConcurrentDownloads]_vars

\* the limit was set to 2 by a call whose write is still under way, and the
\* second entry was taken at that limit as soon as the first was registered
C21_Witness ==
  /\ limitSets = 1 /\ settingsWrites = 1
  /\ maxConcurrentDownloads = 2 /\ drainMax = 2
  /\ phase[1] = "running" /\ phase[2] = "spawning"

\* phases of a request whose task has been put into the registry
WasRegistered == {"running", "deaf", "finalizing", "closed"}

\* C22: a progress, completed or failed event that comes from a task's
\* process (every event but queued, the failed event of a spawn that did not
\* happen and the failed event of an entry cancelled in the queue) is
\* emitted for a task that was put into the registry before, at the latest
\* by the step of startPendingTask that emits the first of them.
C22_RegisteredBeforeEvents ==
  [][\A n \in Reqs :
       /\ NewEvents(n) # <<>>
       /\ NewEvents(n) \notin {<<QueuedEvent>>, <<FailedEvent("spawn")>>}
       /\ ~(phase[n] = "pending" /\ NewEvents(n) = <<FailedEvent("cancel")>>)
       => \/ phase[n] \in WasRegistered
          \/ /\ phase[n] = "spawning"
             /\ activeDownloads'[taskId[n]] = n
             /\ NewEvents(n)[1] = ProgressEvent("downloading", 0)]_vars

\* a registered task whose process has written a progress line
C22_Witness ==
  /\ phase[1] = "running"
  /\ activeDownloads[taskId[1]] = 1
  /\ events[1] = <<QueuedEvent, ProgressEvent("downloading", 0), ProgressEvent("downloading", 50)>>

\* entries whose spawn a drain awaits
Spawning == {n \in Reqs : phase[n] = "spawning"}

\* C23: at most one drain runs: the flag is set exactly while a drain awaits
\* the spawn of the one entry it took (it is false again when the drain has
\* ended, after a spawn error too), and while it is set no other step takes
\* an entry from the queue or starts a spawn: a processQueue call made
\* meanwhile returns at once.
C23_OneDrain ==
  /\ [](/\ Cardinality(Spawning) <= 1
        /\ isProcessingQueue <=> Spawning # {}
        /\ isProcessingQueue => Spawning = {drainTask})
  /\ [][isProcessingQueue /\ Spawning' = Spawning /\ ~forceQuit'
        => \/ pendingQueue' = pendingQueue
           \/ \E n \in Reqs : pendingQueue' = Append(pendingQueue, n)]_vars

\* a drain awaits the first entry's spawn; the second entry was enqueued
\* meanwhile and waits, though nothing is live and the limit is above one
C23_Witness ==
  /\ isProcessingQueue /\ ~forceQuit
  /\ phase[1] = "spawning" /\ phase[2] = "pending"
  /\ pendingQueue = <<2>>
  /\ ActiveSize(activeDownloads) = 0
  /\ maxConcurrentDownloads > 1

\* C24: before a forced shutdown, the requests whose process has spawned
\* and not closed are exactly those whose task the registry holds under its
\* id, also when a start reuses the id of a task that still runs.
C24_RegistryMatchesProcesses ==
  ~forceQuit =>
    \A n \in Reqs :
      phase[n] \in {"running", "deaf"} <=> (taskId[n] # NoId /\ activeDownloads[taskId[n]] = n)

\* how far a status is along queued, downloading, processing, completed
Rank(st) ==
  IF st = "queued" THEN 1 ELSE IF st = "downloading" THEN 2
  ELSE IF st = "processing" THEN 3 ELSE IF st = "completed" THEN 4 ELSE 0

\* C25: the status of a task that has not failed moves only forward along
\* queued, downloading, processing, completed, or to failed; from
\* processing no line takes it back to downloading.
C25_StatusMovesForward ==
  [][\A n \in Reqs :
       status[n] \in {"queued", "downloading", "processing", "completed"}
       => \/ status'[n] = "failed"
          \/ Rank(status'[n]) >= Rank(status[n])]_vars

\* C26: once the status of a task is failed or completed, no line, child
\* error or exit changes it.
C26_TerminalStatusStays ==
  [][\A n \in Reqs :
       status[n] \in {"failed", "completed"} => status'[n] = status[n]]_vars

\* C27: after the failed event of an error line, the exit of the process,
\* whatever its code, adds no failed event of its own, whichever lines were
\* read in between.
C27_NoSecondFailedAtExit ==
  \A n \in Reqs : \A i, j \in DOMAIN events[n] :
    i < j /\ events[n][i] = FailedEvent("line") => events[n][j] # FailedEvent("exit")

\* C28: a line that begins with ERROR fails the task at once, with one
\* failed event, whatever else the line holds.
C28_ErrorLineFails ==
  [][\A n \in Reqs : \A line \in Lines :
       line.prefix = "error" /\ HandleLine(n, line)
       => status'[n] = "failed" /\ NewEvents(n) = <<FailedEvent("line")>>]_vars

\* the file the strategies of finalizeDownload have to choose, from the path
\* recorded when the run began and the files of the directory: the recorded
\* path, else the expected name, else the newest of the expected extension
Candidates(f, dirFiles, times) ==
  LET expectedFile ==
        Join(f.directory, BaseName(f.recorded, ExtName(f.recorded)) \o ExpectedExt(f.audio))
      matched == {g \in dirFiles : DirName(g) = f.directory /\ EndsWith(g, ExpectedExt(f.audio))}
  IN  IF f.recorded \in dirFiles THEN {f.recorded}
      ELSE IF expectedFile \in dirFiles THEN {expectedFile}
      ELSE {g \in matched : \A h \in matched \ {g} : TimeOf(h, times) < TimeOf(g, times)}

\* C30: a run of finalizeDownload over a directory nothing else changes,
\* whose listing does not fail, uses the recorded output path if that file
\* exists, else <base name><expected extension> in the task directory if that
\* exists, else the most recently modified file of the expected extension;
\* if none exists it returns the recorded path unchanged, renames nothing and
\* leaves the directory as it was.
C30_StrategiesInOrder ==
  [][fin.pc \in {"stat1", "stat2", "readdir", "target", "rename"} /\ fin'.pc = "done"
     /\ fin'.still /\ ~(fin'.threw /\ fin'.actualFile = <<>>)
     => IF Candidates(fin, files, mtime) = {}
          THEN /\ fin'.actualFile = <<>>
               /\ fin'.last = fin.recorded
               /\ fin'.outputFile = fin.recorded
               /\ ~fin'.renamed
               /\ files' = files
          ELSE fin'.actualFile \in Candidates(fin, files, mtime)]_vars

\* the third strategy has chosen the newer of two files of the expected
\* extension, neither the recorded path nor the expected name
C30_Witness ==
  /\ fin.pc = "done" /\ fin.runs = 1 /\ fin.still /\ ~fin.threw
  /\ fin.recorded = Join(DirPath(Dir), VideoId \o Webm)
  /\ files = {Join(DirPath(Dir), CandidateName(Clip, 0, Mp4)),
              Join(DirPath(Dir), CandidateName(Clip, 1, Mp4))}
  /\ TimeOf(Join(DirPath(Dir), CandidateName(Clip, 0, Mp4)), mtime)
       < TimeOf(Join(DirPath(Dir), CandidateName(Clip, 1, Mp4)), mtime)
  /\ fin.actualFile = Join(DirPath(Dir), CandidateName(Clip, 1, Mp4))
  /\ fin.last = fin.actualFile

\* no candidate exists: the recorded path is returned
C30_WitnessNone ==
  /\ fin.pc = "done" /\ fin.runs = 1 /\ fin.still /\ ~fin.threw
  /\ fin.recorded = Join(DirPath(Dir), VideoId \o Webm)
  /\ fin.last = fin.recorded /\ fin.actualFile = <<>>
  /\ files = {Join(DirPath(Dir), VideoId \o Mp3)}

\* the path a run of finalizeDownload knows best when it ends: the new name
\* if it renamed the file, else the file it found, else the recorded path
BestKnown(f) ==
  IF f.actualFile = <<>> THEN f.recorded
  ELSE IF f.renamed THEN f.outputFile
  ELSE f.actualFile

EventTypes(n, type) == {i \in DOMAIN events[n] : events[n][i].type = type}

\* C29: after an exit with code 0 and no error line, whatever fails inside
\* finalization (no file found by any strategy, a stat or the rename throws,
\* the stat for the size fails), the failure itself emits nothing and the
\* close handler goes on: it broadcasts the one completed event of the task,
\* with the best-known path as filePath, no failed event, and then calls
\* processQueue, which admits the head of the queue under the limit.
C29_FinalizeFailureStillCompletes ==
  /\ [][fin'.threw /\ ~fin.threw
          => fin'.pc = "done" /\ events' = events /\ phase' = phase]_vars
  /\ [][phase[1] = "finalizing" /\ phase'[1] # "finalizing"
          => /\ events'[1] = Append(events[1], CompletedEvent)
             /\ EventTypes(1, "failed")' = {}
             /\ Cardinality(EventTypes(1, "completed")') = 1
             /\ fin'.filePath = BestKnown(fin)
             /\ (/\ pendingQueue # <<>> /\ ~isProcessingQueue /\ ~forceQuit
                 /\ ActiveSize(activeDownloads) < maxConcurrentDownloads
                 => /\ phase'[Head(pendingQueue)] = "spawning"
                    /\ pendingQueue' = Tail(pendingQueue))]_vars

\* the rename threw after the file was found and the size stat failed: the
\* task is completed with the found file's path and the waiting entry is
\* being spawned
C29_Witness ==
  /\ fin.pc = "reported" /\ fin.threw /\ ~fin.sized
  /\ fin.actualFile # <<>> /\ fin.filePath = fin.actualFile /\ ~fin.renamed
  /\ fin.actualFile # fin.recorded
  /\ phase[1] = "closed" /\ phase[2] = "spawning"
  /\ events[1] = <<QueuedEvent, ProgressEvent("downloading", 0), CompletedEvent>>

\* no strategy found a file: the task is completed with the recorded path
C29_WitnessNotFound ==
  /\ fin.pc = "reported" /\ ~fin.threw /\ ~fin.sized
  /\ fin.actualFile = <<>> /\ fin.recorded # <<>> /\ fin.filePath = fin.recorded
  /\ phase[1] = "closed" /\ phase[2] = "spawning"
  /\ Cardinality(EventTypes(1, "completed")) = 1

\* C31: for an audio task the second and the third strategy of
\* finalizeDownload look for the container that was asked for: a file they
\* find ends with .m4a for audioFormat m4a and with .mp3 for mp3, and the
\* second strategy finds <base name>.<that extension> when it is there.
C31_AudioExtensionIsSelected ==
  /\ [][fin.audio /\ fin.pc \in {"stat2", "readdir"} /\ fin'.pc = "target"
          => EndsWith(fin'.actualFile, SelectedExt(fin.audio, fin.audioFormat))]_vars
  /\ [][/\ fin.audio /\ fin.pc = "stat2"
          /\ Join(fin.directory, BaseName(fin.outputFile, ExtName(fin.outputFile))
                                   \o SelectedExt(fin.audio, fin.audioFormat)) \in files
          => /\ fin'.pc = "target"
             /\ fin'.actualFile =
                  Join(fin.directory, BaseName(fin.outputFile, ExtName(fin.outputFile))
                                       \o SelectedExt(fin.audio, fin.audioFormat))]_vars

\* the pending queue holds nothing once the forced shutdown has begun
QueueEmptyInShutdown == forceQuit => pendingQueue = <<>>

\* the registry holds nothing once the forced shutdown has begun
RegistryEmptyInShutdown == forceQuit => ActiveSize(activeDownloads) = 0

\* C32: once forceQuit is set and cleanupPendingTasks has run, the pending
\* queue and the registry are empty and stay so, and no entry goes to its
\* spawn, whatever drain or download:start call was suspended at that moment.
C32_NothingStartsInShutdown ==
  /\ [](QueueEmptyInShutdown /\ RegistryEmptyInShutdown)
  /\ [][forceQuit => \A n \in Reqs : phase'[n] = "spawning" => phase[n] = "spawning"]_vars

\* C33: among the events of one accepted download:start call, every
\* progress, failed or completed event comes after the queued event of that
\* call, although the handler pushes the entry and calls processQueue before
\* it broadcasts queued.
C33_QueuedEventFirst ==
  \A n \in Reqs : \A i \in DOMAIN events[n] :
    events[n][i].type \in {"progress", "failed", "completed"}
    => \E j \in 1..(i - 1) : events[n][j] = QueuedEvent

\* the call found the queue free: its drain took the entry in the same turn,
\* and the task has gone through its start, a progress line and its exit
C33_Witness ==
  /\ phase[1] = "closed"
  /\ events[1] = <<QueuedEvent, ProgressEvent("downloading", 0),
                   ProgressEvent("downloading", 50), CompletedEvent>>

\* requests that wait in the queue or are active
PendingOrActive ==
  {n \in Reqs : phase[n] \in {"pending", "spawning", "running", "deaf", "finalizing"}}

\* C34: two requests that are pending or active at the same time hold
\* different resolved output paths, whatever their titles and whenever they
\* were submitted.
C34_ResolvedPathsDiffer ==
  \A a, b \in PendingOrActive : a # b => resolved[a] # resolved[b]

\* a file the task's own process wrote: yt-dlp's output template is
\* <directory>/%(id)s.%(ext)s, the id being that of the task's video
OwnFile(f) ==
  /\ DirName(f) = fin.directory
  /\ BaseName(f, ExtName(f)) = VideoId

\* C35: the file a run of finalizeDownload selects, by whichever strategy,
\* is one the task's own process wrote, and the run renames no other file,
\* whatever files of other tasks are in the directory or appear meanwhile.
C35_FinalizeTakesOwnFile ==
  /\ [][fin.pc \in {"stat1", "stat2", "readdir"} /\ fin'.pc = "target"
          => OwnFile(fin'.actualFile)]_vars
  /\ [][fin.pc = "rename" /\ fin'.renamed
          => \A f \in files \ files' : OwnFile(f)]_vars

\* the third strategy took the file of another title for a task whose own
\* file is not there, and renamed it
OtherFileRenamed ==
  /\ fin.pc = "done" /\ fin.runs = 1 /\ fin.still /\ fin.renamed
  /\ fin.recorded = Join(DirPath(Dir), VideoId \o Webm)
  /\ fin.actualFile = Join(DirPath(Dir), CandidateName(Clip, 1, Mp4))
  /\ fin.last = Join(DirPath(Dir), CandidateName(Clip, 0, Mp4))

\* request n has got its removed event
Removed(n) == \E i \in DOMAIN events[n] : events[n][i] = RemovedEvent

\* C36: a step of download:delete removes at most the given file and emits
\* at most the removed event of its id; it leaves the pending queue, the
\* registry, the drain, every task's state and the set of signalled
\* processes as they were. So an entry deleted while pending is still in the
\* queue, and a task deleted while its process runs is still registered.
C36_DeleteIsFrameOnly ==
  /\ [][deleting' # deleting \/ (\E n \in Reqs : Removed(n)' /\ ~Removed(n))
          => /\ UNCHANGED <<pendingQueue, activeDownloads, isProcessingQueue, drainTask,
                            drainMax, signaled, phase, status, taskId, forceQuit>>
             /\ files' \subseteq files
             /\ \A f \in files \ files' : \E n \in deleting' \ deleting : f = resolved[n]
             /\ \A n \in Reqs : NewEvents(n) \in {<<>>, <<RemovedEvent>>}]_vars
  /\ [](\A n \in Reqs :
          /\ Removed(n) /\ phase[n] = "running" => activeDownloads[taskId[n]] = n
          /\ (\E i \in DOMAIN events[n] : events[n][i] = RemovedEvent /\ i = Len(events[n]))
               /\ phase[n] = "pending" => n \in InQueue(pendingQueue))

\* under a limit of one the first task was deleted while its process ran
\* and the second while it waited: the second waited until the first had
\* exited and was admitted then
C36_Witness ==
  /\ maxConcurrentDownloads = MinConcurrent
  /\ phase[1] = "closed" /\ Removed(1)
  /\ events[1][3] = RemovedEvent
  /\ phase[2] = "running" /\ activeDownloads[taskId[2]] = 2
  /\ events[2] = <<QueuedEvent, RemovedEvent, ProgressEvent("downloading", 0)>>

\* C37: what sanitizeFilename returns is trimmed and is sanitized to itself:
\* for every title t, sanitizeFilename(sanitizeFilename(t)) =
\* sanitizeFilename(t), for titles over the truncation length too.
C37_SanitizeIdempotent ==
  call.fn = "sanitizeFilename" /\ call.done
  => /\ Trim(call.result) = call.result
     /\ sanitizeFilename(call.result) = call.result
====
